---- MODULE Spec2Model ----
(***************************************************************************)
(* A model of nit's storage core: the Lockfile guard (src/lockfile.rs),    *)
(* the staging Index (src/index/mod.rs, entry.rs, checksum.rs) and the     *)
(* command-line sessions that drive them (src/main.rs).                    *)
(*                                                                         *)
(* Files are byte sequences held in inodes; a directory maps the names     *)
(* index, index.lock, HEAD, HEAD.lock to inodes.  An open handle names an  *)
(* inode, so a                                                             *)
(* handle survives the removal or the renaming of the name it was opened   *)
(* under, as on a POSIX file system.                                       *)
(*                                                                         *)
(* Paths are sequences of bytes, relative and normalised (no leading,      *)
(* trailing or doubled '/'), which is what Workspace::list_files yields.   *)
(* Integers of the model stay below 2^31, so the `as u32` truncations of   *)
(* Entry::new are the identity on every value the model draws.             *)
(***************************************************************************)
EXTENDS Integers, Sequences, FiniteSets, TLC

----------------------------------------------------------------------------
(* Bytes and paths *)

Byte == 0..255

Slash == 47

RECURSIVE Zeros(_)
Zeros(n) == IF n <= 0 THEN <<>> ELSE <<0>> \o Zeros(n - 1)

\* Big-endian encoding of x in n bytes (u32::to_be_bytes, u16::to_be_bytes).
RECURSIVE ToBe(_, _)
ToBe(x, n) == IF n = 0 THEN <<>> ELSE ToBe(x \div 256, n - 1) \o <<x % 256>>

\* u32::from_be_bytes / u16::from_be_bytes.
RECURSIVE FromBe(_)
FromBe(bs) ==
  IF bs = <<>> THEN 0
  ELSE FromBe(SubSeq(bs, 1, Len(bs) - 1)) * 256 + bs[Len(bs)]

\* Lexicographic order on byte strings (OsStr's Ord).
RECURSIVE BytesLess(_, _)
BytesLess(a, b) ==
  IF b = <<>> THEN FALSE
  ELSE IF a = <<>> THEN TRUE
  ELSE IF a[1] # b[1] THEN a[1] < b[1]
  ELSE BytesLess(Tail(a), Tail(b))

\* The components of a path: the pieces between '/' (Path::components).
RECURSIVE Components(_)
Components(p) ==
  IF p = <<>> THEN <<>>
  ELSE LET cut == IF \E i \in 1..Len(p) : p[i] = Slash
                  THEN CHOOSE i \in 1..Len(p) :
                         p[i] = Slash /\ \A j \in 1..(i - 1) : p[j] # Slash
                  ELSE Len(p) + 1
       IN  <<SubSeq(p, 1, cut - 1)>> \o Components(SubSeq(p, cut + 1, Len(p)))

\* Path's Ord compares the component lists lexicographically; this is the
\* order of the BTreeMap that holds the entries.
RECURSIVE CompsLess(_, _)
CompsLess(a, b) ==
  IF b = <<>> THEN FALSE
  ELSE IF a = <<>> THEN TRUE
  ELSE IF a[1] # b[1] THEN BytesLess(a[1], b[1])
  ELSE CompsLess(Tail(a), Tail(b))

PathLess(p, q) == CompsLess(Components(p), Components(q))

\* The keys of a BTreeMap in iteration order.
RECURSIVE SortedPaths(_)
SortedPaths(S) ==
  IF S = {} THEN <<>>
  ELSE LET m == CHOOSE x \in S : \A y \in S \ {x} : PathLess(x, y)
       IN  <<m>> \o SortedPaths(S \ {m})

\* d is a proper ancestor directory of p.
IsAncestor(d, p) ==
  /\ Len(d) < Len(p)
  /\ SubSeq(p, 1, Len(d)) = d
  /\ p[Len(d) + 1] = Slash

----------------------------------------------------------------------------
(* Entry (src/index/entry.rs) *)

MAX_PATH_SIZE == 4095
REGULAR_MODE == 33188
EXECUTABLE_MODE == 33261

\* utils::is_executable: mode & 0o111 != 0.
is_executable(mode) ==
  \/ (mode \div 64) % 2 = 1
  \/ (mode \div 8) % 2 = 1
  \/ mode % 2 = 1

Min(a, b) == IF a <= b THEN a ELSE b

\* Entry::new.
Entry_new(path, oid, stat) ==
  [ ctime      |-> stat.ctime,
    ctime_nsec |-> stat.ctime_nsec,
    mtime      |-> stat.mtime,
    mtime_nsec |-> stat.mtime_nsec,
    dev        |-> stat.dev,
    ino        |-> stat.ino,
    mode       |-> IF is_executable(stat.mode) THEN EXECUTABLE_MODE
                   ELSE REGULAR_MODE,
    uid        |-> stat.uid,
    gid        |-> stat.gid,
    size       |-> stat.size,
    oid        |-> oid,
    flags      |-> Min(Len(path) % 65536, MAX_PATH_SIZE),
    path       |-> path ]

\* Entry::parent_directories: the proper ancestors, shortest first.
RECURSIVE PrefixesUpTo(_, _)
PrefixesUpTo(p, i) ==
  IF i > Len(p) THEN <<>>
  ELSE (IF p[i] = Slash THEN <<SubSeq(p, 1, i - 1)>> ELSE <<>>)
       \o PrefixesUpTo(p, i + 1)

parent_directories(path) == PrefixesUpTo(path, 1)

ENTRY_BLOCK == 8

\* A variant that writes the flags before the ObjectId.
Entry_bytes_flags_first(e) ==
  LET fixed == ToBe(e.ctime, 4) \o ToBe(e.ctime_nsec, 4) \o ToBe(e.mtime, 4)
               \o ToBe(e.mtime_nsec, 4) \o ToBe(e.dev, 4) \o ToBe(e.ino, 4)
               \o ToBe(e.mode, 4) \o ToBe(e.uid, 4) \o ToBe(e.gid, 4)
               \o ToBe(e.size, 4) \o ToBe(e.flags, 2) \o e.oid
               \o e.path \o <<0>>
  IN  fixed \o Zeros((ENTRY_BLOCK - (Len(fixed) % ENTRY_BLOCK)) % ENTRY_BLOCK)

\* Entry::bytes.
Entry_bytes(e) ==
  LET fixed == ToBe(e.ctime, 4) \o ToBe(e.ctime_nsec, 4) \o ToBe(e.mtime, 4)
               \o ToBe(e.mtime_nsec, 4) \o ToBe(e.dev, 4) \o ToBe(e.ino, 4)
               \o ToBe(e.mode, 4) \o ToBe(e.uid, 4) \o ToBe(e.gid, 4)
               \o ToBe(e.size, 4) \o e.oid \o ToBe(e.flags, 2)
               \o e.path \o <<0>>
  IN  fixed \o Zeros((ENTRY_BLOCK - (Len(fixed) % ENTRY_BLOCK)) % ENTRY_BLOCK)

\* take_while(|b| b != 0).
RECURSIVE TakeUntilNul(_)
TakeUntilNul(bs) ==
  IF bs = <<>> \/ bs[1] = 0 THEN <<>> ELSE <<bs[1]>> \o TakeUntilNul(Tail(bs))

\* Entry::parse, on a block of at least 64 bytes.
Entry_parse(data) ==
  [ ctime      |-> FromBe(SubSeq(data, 1, 4)),
    ctime_nsec |-> FromBe(SubSeq(data, 5, 8)),
    mtime      |-> FromBe(SubSeq(data, 9, 12)),
    mtime_nsec |-> FromBe(SubSeq(data, 13, 16)),
    dev        |-> FromBe(SubSeq(data, 17, 20)),
    ino        |-> FromBe(SubSeq(data, 21, 24)),
    mode       |-> FromBe(SubSeq(data, 25, 28)),
    uid        |-> FromBe(SubSeq(data, 29, 32)),
    gid        |-> FromBe(SubSeq(data, 33, 36)),
    size       |-> FromBe(SubSeq(data, 37, 40)),
    oid        |-> SubSeq(data, 41, 60),
    flags      |-> FromBe(SubSeq(data, 61, 62)),
    path       |-> TakeUntilNul(SubSeq(data, 63, Len(data))) ]

----------------------------------------------------------------------------
(* Index, in memory (src/index/mod.rs).  An index value is a record        *)
(* [entries, parents, changed]: entries is a function from the tracked     *)
(* paths to their Entry, parents a function from directory paths to the    *)
(* set of entry paths stored beneath them.                                 *)

EmptyFn == [x \in {} |-> {}]

Without(f, k) == [x \in (DOMAIN f) \ {k} |-> f[x]]

With(f, k, v) == [x \in (DOMAIN f) \cup {k} |-> IF x = k THEN v ELSE f[x]]

\* Index::new.
Index_new == [entries |-> EmptyFn, parents |-> EmptyFn, changed |-> FALSE]

\* A clear that leaves the index as it is.
clear_nothing(ix) == ix

\* Index::clear.
clear(ix) == [entries |-> EmptyFn, parents |-> EmptyFn, changed |-> FALSE]

\* Index::is_tracked.
is_tracked(ix, path) ==
  path \in DOMAIN ix.entries \/ path \in DOMAIN ix.parents

\* A store_entry that first empties the entries.
store_entry_alone(ix, e) ==
  [ix EXCEPT !.entries = (e.path :> e), !.parents = EmptyFn]

\* The loop of store_entry over the parent directories of the entry.
RECURSIVE InsertParents(_, _, _)
InsertParents(par, dirs, path) ==
  IF dirs = <<>> THEN par
  ELSE LET d == Head(dirs)
           s == IF d \in DOMAIN par THEN par[d] ELSE {}
       IN  InsertParents(With(par, d, s \cup {path}), Tail(dirs), path)

\* Index::store_entry.
store_entry(ix, e) ==
  [ix EXCEPT !.parents = InsertParents(ix.parents, parent_directories(e.path), e.path),
             !.entries = With(ix.entries, e.path, e)]

\* The loop of remove_entry over the parent directories; `done` is FALSE
\* when parents.get_mut(dirname)? found no set and returned early.
RECURSIVE RemoveFromParents(_, _, _)
RemoveFromParents(par, dirs, path) ==
  IF dirs = <<>> THEN [parents |-> par, done |-> TRUE]
  ELSE LET d == Head(dirs) IN
       IF d \notin DOMAIN par THEN [parents |-> par, done |-> FALSE]
       ELSE LET s == par[d] \ {path}
                par2 == IF s = {} THEN Without(par, d)
                        ELSE [par EXCEPT ![d] = s]
            IN  RemoveFromParents(par2, Tail(dirs), path)

\* Index::remove_entry.
remove_entry(ix, path) ==
  IF path \notin DOMAIN ix.entries THEN ix
  ELSE LET r == RemoveFromParents(ix.parents, parent_directories(path), path)
       IN  IF r.done
           THEN [ix EXCEPT !.parents = r.parents,
                           !.entries = Without(ix.entries, path)]
           ELSE [ix EXCEPT !.parents = r.parents]

\* Index::remove_children; order is the order in which the HashSet of
\* children happens to be iterated.
RECURSIVE RemoveAll(_, _)
RemoveAll(ix, order) ==
  IF order = <<>> THEN ix
  ELSE RemoveAll(remove_entry(ix, Head(order)), Tail(order))

\* A variant that removes the direct children only, not the nested ones.
remove_children_direct(ix, path, order) ==
  IF path \in DOMAIN ix.parents
  THEN RemoveAll(ix, SelectSeq(order, LAMBDA c : Len(parent_directories(c)) > 0
                   /\ parent_directories(c)[Len(parent_directories(c))] = path))
  ELSE ix

remove_children(ix, path, order) ==
  IF path \in DOMAIN ix.parents THEN RemoveAll(ix, order) ELSE ix

\* The first loop of discard_conflicts: entries.remove on every parent
\* directory of the new entry.
RECURSIVE RemoveKeys(_, _)
RemoveKeys(f, keys) ==
  IF keys = <<>> THEN f ELSE RemoveKeys(Without(f, Head(keys)), Tail(keys))

\* A variant that leaves the entries at the parent directories in place.
discard_conflicts_children_only(ix, e, order) == remove_children(ix, e.path, order)

\* Index::discard_conflicts.
discard_conflicts(ix, e, order) ==
  remove_children(
    [ix EXCEPT !.entries = RemoveKeys(ix.entries, parent_directories(e.path))],
    e.path, order)

\* An add that leaves the changed flag as it finds it.
Index_add_unflagged(ix, path, oid, stat, order) ==
  LET e == Entry_new(path, oid, stat)
  IN  store_entry(discard_conflicts(ix, e, order), e)

\* Index::add.
Index_add(ix, path, oid, stat, order) ==
  LET e == Entry_new(path, oid, stat)
  IN  [store_entry(discard_conflicts(ix, e, order), e) EXCEPT !.changed = TRUE]

\* The orders in which a set can be iterated.
Orders(S) ==
  {s \in [1..Cardinality(S) -> S] : \A i, j \in 1..Cardinality(S) : i # j => s[i] # s[j]}

\* The iteration orders of the children remove_children clones for path.
ChildOrders(ix, path) ==
  IF path \in DOMAIN ix.parents THEN Orders(ix.parents[path]) ELSE {<<>>}

----------------------------------------------------------------------------
(* Checksum (src/index/checksum.rs) and the index file format              *)

CHECKSUM_SIZE == 20
HEADER_SIZE == 12
VERSION == 2
ENTRY_MIN_SIZE == 64

\* "DIRC"
SIGNATURE == <<68, 73, 82, 67>>

\* One 16-bit lane of the digest: the sum of the bytes lo..hi, each plus one
\* and weighted by its position, modulo the prime 46337.  Changing one byte
\* changes every lane, since the change is the product of two non-zero
\* numbers below the prime.
RECURSIVE Lane(_, _, _, _)
Lane(bs, lo, hi, k) ==
  IF lo > hi THEN 0
  ELSE IF lo = hi THEN ((bs[lo] + 1) * (((lo * k) % 251) + 1)) % 46337
  ELSE LET mid == (lo + hi) \div 2
       IN  (Lane(bs, lo, mid, k) + Lane(bs, mid + 1, hi, k)) % 46337

\* Sha1::finalize over the first n bytes of bs, the bytes fed to update:
\* SHA-1 itself is outside what TLC can compute, so the 20-byte digest is
\* ten such lanes.
Sha1(bs, n) ==
  ToBe(Lane(bs, 1, n, 1), 2) \o ToBe(Lane(bs, 1, n, 2), 2)
  \o ToBe(Lane(bs, 1, n, 3), 2) \o ToBe(Lane(bs, 1, n, 4), 2)
  \o ToBe(Lane(bs, 1, n, 5), 2) \o ToBe(Lane(bs, 1, n, 6), 2)
  \o ToBe(Lane(bs, 1, n, 7), 2) \o ToBe(Lane(bs, 1, n, 8), 2)
  \o ToBe(Lane(bs, 1, n, 9), 2) \o ToBe(Lane(bs, 1, n, 10), 2)

\* std::str::from_utf8 on a byte string.
IsCont(b) == b >= 128 /\ b <= 191

RECURSIVE IsUtf8(_)
IsUtf8(bs) ==
  IF bs = <<>> THEN TRUE
  ELSE LET b == bs[1]
           n == Len(bs)
       IN  IF b < 128 THEN IsUtf8(Tail(bs))
           ELSE IF b >= 194 /\ b <= 223
                THEN n >= 2 /\ IsCont(bs[2]) /\ IsUtf8(SubSeq(bs, 3, n))
           ELSE IF b >= 224 /\ b <= 239
                THEN /\ n >= 3
                     /\ IsCont(bs[2]) /\ IsCont(bs[3])
                     /\ (b = 224 => bs[2] >= 160)
                     /\ (b = 237 => bs[2] <= 159)
                     /\ IsUtf8(SubSeq(bs, 4, n))
           ELSE IF b >= 240 /\ b <= 244
                THEN /\ n >= 4
                     /\ IsCont(bs[2]) /\ IsCont(bs[3]) /\ IsCont(bs[4])
                     /\ (b = 240 => bs[2] >= 144)
                     /\ (b = 244 => bs[2] <= 143)
                     /\ IsUtf8(SubSeq(bs, 5, n))
           ELSE FALSE

\* A read_header that compares the version before the signature.
read_header_version_first(file) ==
  IF Len(file) < HEADER_SIZE THEN [err |-> "CouldNotReadFile", count |-> 0]
  ELSE LET signature == SubSeq(file, 1, 4)
           version   == FromBe(SubSeq(file, 5, 8))
           count     == FromBe(SubSeq(file, 9, 12))
       IN  IF ~IsUtf8(signature) THEN [err |-> "BadHeader", count |-> 0]
           ELSE IF version # VERSION
                THEN [err |-> "IncorrectVersion", count |-> 0]
           ELSE IF signature # SIGNATURE
                THEN [err |-> "IncorrectSignature", count |-> 0]
           ELSE [err |-> "Ok", count |-> count]

\* Index::read_header on a file: the entry count, or the error.
read_header(file) ==
  IF Len(file) < HEADER_SIZE THEN [err |-> "CouldNotReadFile", count |-> 0]
  ELSE LET signature == SubSeq(file, 1, 4)
           version   == FromBe(SubSeq(file, 5, 8))
           count     == FromBe(SubSeq(file, 9, 12))
       IN  IF ~IsUtf8(signature) THEN [err |-> "BadHeader", count |-> 0]
           ELSE IF signature # SIGNATURE
                THEN [err |-> "IncorrectSignature", count |-> 0]
           ELSE IF version # VERSION
                THEN [err |-> "IncorrectVersion", count |-> 0]
           ELSE [err |-> "Ok", count |-> count]

\* A reader that goes on byte by byte after the first 64 bytes.
RECURSIVE EntryEnd_bytewise(_, _)
EntryEnd_bytewise(file, end) ==
  IF end > Len(file) THEN 0
  ELSE IF file[end] = 0 THEN end
  ELSE EntryEnd_bytewise(file, end + 1)

\* The end of the entry that starts after position pos: 64 bytes, then
\* blocks of 8 until the last byte read is NUL; 0 when the file ends first.
RECURSIVE EntryEnd(_, _)
EntryEnd(file, end) ==
  IF end > Len(file) THEN 0
  ELSE IF file[end] = 0 THEN end
  ELSE EntryEnd(file, end + ENTRY_BLOCK)

\* Index::read_entries: the entries are stored one by one, and a read past
\* the end of the file stops the loop with those stored so far.
RECURSIVE read_entries(_, _, _, _)
read_entries(ix, file, pos, count) ==
  IF count = 0 THEN [err |-> "Ok", ix |-> ix, pos |-> pos]
  ELSE LET end == EntryEnd(file, pos + ENTRY_MIN_SIZE)
       IN  IF end = 0 THEN [err |-> "CouldNotReadFile", ix |-> ix, pos |-> pos]
           ELSE read_entries(store_entry(ix, Entry_parse(SubSeq(file, pos + 1, end))),
                             file, end, count - 1)

\* A variant that reads the trailer and does not compare it.
verify_checksum_unchecked(file, pos) ==
  IF Len(file) < pos + CHECKSUM_SIZE THEN "CouldNotReadFile" ELSE "Ok"

\* Checksum::verify_checksum, after pos bytes were read through the reader.
verify_checksum(file, pos) ==
  IF Len(file) < pos + CHECKSUM_SIZE THEN "CouldNotReadFile"
  ELSE IF Sha1(file, pos) # SubSeq(file, pos + 1, pos + CHECKSUM_SIZE)
       THEN "BadChecksum"
  ELSE "Ok"

NoFile == <<-1>>

\* Index::load; file is the content of the index file, or NoFile when
\* open_index_file finds none.
Index_load(ix, file) ==
  LET c == clear(ix) IN
  IF file = NoFile THEN [err |-> "Ok", ix |-> c]
  ELSE LET h == read_header(file) IN
       IF h.err # "Ok" THEN [err |-> h.err, ix |-> c]
       ELSE LET r == read_entries(c, file, HEADER_SIZE, h.count) IN
            IF r.err # "Ok" THEN [err |-> r.err, ix |-> r.ix]
            ELSE [err |-> verify_checksum(file, r.pos), ix |-> r.ix]

\* The three writes of write_updates.
HeaderBytes(ix) ==
  SIGNATURE \o ToBe(VERSION, 4) \o ToBe(Cardinality(DOMAIN ix.entries), 4)

RECURSIVE ConcatEntries(_, _)
ConcatEntries(f, keys) ==
  IF keys = <<>> THEN <<>>
  ELSE Entry_bytes(f[Head(keys)]) \o ConcatEntries(f, Tail(keys))

BodyBytes(ix) == ConcatEntries(ix.entries, SortedPaths(DOMAIN ix.entries))

ChecksumBytes(ix) ==
  LET written == HeaderBytes(ix) \o BodyBytes(ix) IN Sha1(written, Len(written))

----------------------------------------------------------------------------
(* The file system and the Lockfile guard (src/lockfile.rs).  A file       *)
(* system value is a record [dir, inode]: dir maps a name to its inode     *)
(* (0: no such file), inode maps an inode to its bytes.  A guard is the    *)
(* field Lockfile.lock: 0 for None, else the inode of the open handle.     *)
(* MissingParent and NoPermission need a missing or unwritable .git and    *)
(* are not drawn: the directory exists and is writable throughout.         *)

Procs == {1, 2, 3}

Names == {"index", "index.lock", "HEAD", "HEAD.lock"}

Inodes == 1..(Cardinality(Procs) + 2)

\* Lockfile::new: lock_path is file_path with the extension "lock" added.
LockPath(target) == IF target = "index" THEN "index.lock" ELSE "HEAD.lock"

Content(fs, name) == IF fs.dir[name] = 0 THEN NoFile ELSE fs.inode[fs.dir[name]]

\* The inodes a name or an open handle refers to.
InUse(fs, handles) == {fs.dir[n] : n \in Names} \cup handles

\* An inode nothing refers to any more loses its content.
Reclaim(fs, handles) ==
  [fs EXCEPT !.inode = [i \in Inodes |->
                          IF i \in InUse(fs, handles) THEN fs.inode[i] ELSE <<>>]]

\* A hold_for_update that tries to create P.lock whether or not the guard
\* holds the lock already.
hold_for_update_again(fs, lk, target, handles) ==
  IF fs.dir[LockPath(target)] # 0
  THEN [fs |-> fs, lock |-> lk, res |-> "LockDenied"]
  ELSE LET i == CHOOSE x \in Inodes \ InUse(fs, handles) :
                  \A y \in Inodes \ InUse(fs, handles) : x <= y
       IN  [fs   |-> [dir   |-> [fs.dir EXCEPT ![LockPath(target)] = i],
                      inode |-> [fs.inode EXCEPT ![i] = <<>>]],
            lock |-> i,
            res  |-> "Ok"]

\* Lockfile::hold_for_update; handles are the inodes open in any guard.
hold_for_update(fs, lk, target, handles) ==
  IF lk # 0 THEN [fs |-> fs, lock |-> lk, res |-> "Ok"]
  ELSE IF fs.dir[LockPath(target)] # 0
       THEN [fs |-> fs, lock |-> 0, res |-> "LockDenied"]
  ELSE LET i == CHOOSE x \in Inodes \ InUse(fs, handles) :
                  \A y \in Inodes \ InUse(fs, handles) : x <= y
       IN  [fs   |-> [dir   |-> [fs.dir EXCEPT ![LockPath(target)] = i],
                      inode |-> [fs.inode EXCEPT ![i] = <<>>]],
            lock |-> i,
            res  |-> "Ok"]

\* A write that reaches P.lock by its path when the guard has no handle.
Lockfile_write_by_path(fs, lk, bytes) ==
  LET i == IF lk # 0 THEN lk ELSE fs.dir["index.lock"] IN
    IF i = 0 THEN [fs |-> fs, lock |-> lk, res |-> "StaleLock"]
    ELSE [fs   |-> [fs EXCEPT !.inode[i] = @ \o bytes],
          lock |-> lk,
          res  |-> "Ok"]

\* impl Write for Lockfile: write through Lockfile::lock.
Lockfile_write(fs, lk, bytes) ==
  IF lk = 0 THEN [fs |-> fs, lock |-> lk, res |-> "StaleLock"]
  ELSE [fs   |-> [fs EXCEPT !.inode[lk] = @ \o bytes],
        lock |-> lk,
        res  |-> "Ok"]

\* Lockfile::commit: the result of take().ok_or(StaleLock) is dropped
\* unexamined, then the rename runs.
commit(fs, lk, target) ==
  IF fs.dir[LockPath(target)] = 0
  THEN [fs |-> fs, lock |-> 0, res |-> "IoError"]
  ELSE [fs   |-> [fs EXCEPT !.dir = [fs.dir EXCEPT ![target] = fs.dir[LockPath(target)],
                                                   ![LockPath(target)] = 0]],
        lock |-> 0,
        res  |-> "Ok"]

\* Lockfile::rollback: likewise, then remove_file runs.
rollback(fs, lk, target) ==
  IF fs.dir[LockPath(target)] = 0
  THEN [fs |-> fs, lock |-> 0, res |-> "IoError"]
  ELSE [fs   |-> [fs EXCEPT !.dir[LockPath(target)] = 0],
        lock |-> 0,
        res  |-> "Ok"]

\* Index::write_updates, run without interruption: the rollback of an
\* unchanged index does not return, so the lock is then taken and the file
\* written all the same; `?` returns the first error.
write_updates(fs, lk, ix, handles) ==
  LET r0 == IF ~ix.changed THEN rollback(fs, lk, "index")
            ELSE [fs |-> fs, lock |-> lk, res |-> "Ok"]
      r1 == hold_for_update(r0.fs, r0.lock, "index", handles \ {lk})
      r2 == Lockfile_write(r1.fs, r1.lock, HeaderBytes(ix))
      r3 == Lockfile_write(r2.fs, r2.lock, BodyBytes(ix))
      r4 == Lockfile_write(r3.fs, r3.lock, ChecksumBytes(ix))
      r5 == commit(r4.fs, r4.lock, "index")
      out(r, i) == [fs |-> r.fs, lock |-> r.lock, ix |-> i, res |-> r.res]
  IN  IF r0.res # "Ok" THEN out(r0, ix)
      ELSE IF r1.res # "Ok" THEN out(r1, ix)
      ELSE IF r2.res # "Ok" THEN out(r2, ix)
      ELSE IF r3.res # "Ok" THEN out(r3, ix)
      ELSE IF r4.res # "Ok" THEN out(r4, ix)
      ELSE IF r5.res # "Ok" THEN out(r5, ix)
      ELSE out(r5, [ix EXCEPT !.changed = FALSE])

----------------------------------------------------------------------------
(* State *)

VARIABLES
  dir,     \* the directory .git: name -> inode, 0 when the file is absent
  inode,   \* inode -> bytes
  lock,    \* per process: Lockfile.lock of its guard
  index,   \* per process: its Index (entries, parents, changed)
  pc,      \* per process: where its command stands
  ret,     \* per process: the result its command ended with
  last,    \* the last call made: its name, arguments, result and the state before it
  nOps,    \* calls made so far
  job,     \* per process: the command it runs and the paths it has yet to add
  refLock, \* per process: Lockfile.lock of the guard Refs::update_head makes
  objects, \* the directory .git/objects: its files and their bytes
  store,   \* per process: the locals of its call of Database::store
  tree     \* the Vec<Entry> handed to Tree::build and the Tree built from it

vars == <<dir, inode, lock, index, pc, ret, last, nOps, job, refLock,
          objects, store, tree>>

\* What the specifications of the index and its lock leave alone.
NoObjects == [dir |-> <<>>, inode |-> <<>>]

NoStore == [p \in {1, 2, 3} |-> [n |-> 0]]

NoTree == [entries |-> <<>>]

dbVars == <<objects, store, tree>>

Fs == [dir |-> dir, inode |-> inode]

Handles == ({lock[p] : p \in Procs} \cup {refLock[p] : p \in Procs}) \ {0}

NoJob == [cmd |-> "none", paths |-> <<>>, todo |-> <<>>]

NoCall == [op |-> "none"]

EmptyDir == [n \in Names |-> 0]

EmptyInodes == [i \in Inodes |-> <<>>]

----------------------------------------------------------------------------
(* Inputs *)

\* a, a/b, a/b/c, a/b/c/d, a/e, f
pA    == <<97>>
pAB   == <<97, 47, 98>>
pABC  == <<97, 47, 98, 47, 99>>
pABCD == <<97, 47, 98, 47, 99, 47, 100>>
pAE   == <<97, 47, 101>>
pF    == <<102>>

IndexPaths == {pA, pAB, pABC, pABCD, pAE, pF}

Oid(b) == [i \in 1..20 |-> b]

Oids == {Oid(12), Oid(34)}

\* The Metadata of a regular and of an executable file.
StatRegular ==
  [ctime |-> 1600000000, ctime_nsec |-> 7, mtime |-> 1600000001, mtime_nsec |-> 8,
   dev |-> 66306, ino |-> 1234567, mode |-> 33188, uid |-> 1000, gid |-> 100,
   size |-> 12]

StatExecutable == [StatRegular EXCEPT !.mode = 33261, !.size = 300]

Stats == {StatRegular, StatExecutable}

\* The files of the workspace an add can stage: an ObjectId with a Metadata.
Staged == {[oid |-> Oid(12), stat |-> StatRegular],
           [oid |-> Oid(34), stat |-> StatExecutable]}

\* The whole index file write_updates produces for an index.
IndexFile(ix) == HeaderBytes(ix) \o BodyBytes(ix) \o ChecksumBytes(ix)

\* Index files left by earlier runs: none, one entry, two entries.
SavedIndexes ==
  { Index_add(Index_new, pABC, Oid(12), StatRegular, <<>>),
    Index_add(Index_add(Index_new, pAE, Oid(12), StatRegular, <<>>),
              pF, Oid(34), StatExecutable, <<>>) }

SavedFiles == {NoFile} \cup {IndexFile(ix) : ix \in SavedIndexes}

\* The directory that holds this content as the index file.
DirWith(file) == IF file = NoFile THEN EmptyDir ELSE [EmptyDir EXCEPT !["index"] = 1]

InodesWith(file) ==
  IF file = NoFile THEN EmptyInodes ELSE [EmptyInodes EXCEPT ![1] = file]

----------------------------------------------------------------------------
(* SpecIndex: one Index value, on which add and load are called in any     *)
(* order, over an index file left by an earlier run.                       *)

MaxOps == 4

InitIndex ==
  /\ \E file \in SavedFiles : dir = DirWith(file) /\ inode = InodesWith(file)
  /\ lock = [p \in Procs |-> 0]
  /\ index = [p \in Procs |-> Index_new]
  /\ pc = [p \in Procs |-> "idle"]
  /\ ret = [p \in Procs |-> "Ok"]
  /\ last = NoCall
  /\ nOps = 0
  /\ job = [p \in Procs |-> NoJob]
  /\ refLock = [p \in Procs |-> 0]
  /\ objects = NoObjects
  /\ store = NoStore
  /\ tree = NoTree

\* index.add(path, oid, stat)
IxAdd(path, oid, stat) ==
  /\ nOps < MaxOps
  /\ \E order \in ChildOrders(index[1], path) :
       /\ index' = [index EXCEPT ![1] = Index_add(index[1], path, oid, stat, order)]
       /\ last' = [op |-> "add", path |-> path, oid |-> oid, stat |-> stat,
                   before |-> index[1]]
  /\ nOps' = nOps + 1
  /\ UNCHANGED <<dir, inode, lock, pc, ret, job, refLock, objects, store, tree>>

\* index.load()
IxLoad ==
  /\ nOps < MaxOps
  /\ LET r == Index_load(index[1], Content(Fs, "index")) IN
       /\ index' = [index EXCEPT ![1] = r.ix]
       /\ last' = [op |-> "load", res |-> r.err]
  /\ nOps' = nOps + 1
  /\ UNCHANGED <<dir, inode, lock, pc, ret, job, refLock, objects, store, tree>>

NextIndex ==
  \/ \E path \in IndexPaths, f \in Staged : IxAdd(path, f.oid, f.stat)
  \/ IxLoad

SpecIndex == InitIndex /\ [][NextIndex]_vars


\* The entries add(path, oid, stat) is to leave, given those before it: the
\* ones at no ancestor of path and not beneath it, and the new one at path.
AfterAdd(before, path, oid, stat) ==
  [q \in {x \in DOMAIN before : ~IsAncestor(x, path) /\ ~IsAncestor(path, x)}
         \cup {path}
     |-> IF q = path THEN Entry_new(path, oid, stat) ELSE before[q]]

\* C6: tree-shape invariant: no entry's path is an ancestor directory of
\* another entry's path; add(a/b) then add(a) leaves only a, and add(a) then
\* add(a/b) leaves only a/b.
C6_TreeShape ==
  /\ \A p, q \in DOMAIN index[1].entries : ~IsAncestor(p, q)
  /\ (last.op = "add" /\ last.path = pA /\ DOMAIN last.before.entries = {pAB})
       => DOMAIN index[1].entries = {pA}
  /\ (last.op = "add" /\ last.path = pAB /\ DOMAIN last.before.entries = {pA})
       => DOMAIN index[1].entries = {pAB}

\* A directory with a nested entry has just been replaced by a file.
C6_Witness ==
  /\ last.op = "add" /\ last.path = pA
  /\ pABC \in DOMAIN last.before.entries
  /\ DOMAIN index[1].entries = {pA}

\* C7: add(p) removes exactly the entries at a proper ancestor of p or
\* strictly beneath p, sets the entry at p, and leaves every other entry as
\* it was.
C7_AddFrame ==
  last.op = "add" =>
    index[1].entries = AfterAdd(last.before.entries, last.path, last.oid, last.stat)

\* add(a/b) has evicted the nested a/b/c/d and kept the sibling a/e.
C7_Witness ==
  /\ last.op = "add" /\ last.path = pAB
  /\ {pABCD, pAE} \subseteq DOMAIN last.before.entries
  /\ DOMAIN index[1].entries = {pAB, pAE}

\* C8: is_tracked(path) is true exactly when path is the path of an entry
\* or an entry lies strictly beneath path.
C8_IsTracked ==
  \A path \in IndexPaths :
    is_tracked(index[1], path) <=>
      \/ path \in DOMAIN index[1].entries
      \/ \E q \in DOMAIN index[1].entries : IsAncestor(path, q)

\* C27: after any sequence of add and load the ancestor mapping is exact:
\* for every directory path d the set stored for d is the set of paths of
\* current entries strictly beneath d, and d is a key only when that set
\* is non-empty.
C27_ParentsExact ==
  \A d \in IndexPaths \cup DOMAIN index[1].parents :
    LET beneath == {q \in DOMAIN index[1].entries : IsAncestor(d, q)} IN
      IF d \in DOMAIN index[1].parents
      THEN index[1].parents[d] = beneath /\ beneath # {}
      ELSE beneath = {}

----------------------------------------------------------------------------
(* SpecLock: two Lockfile guards on the same path, each calling            *)
(* hold_for_update, write, commit and rollback in any order.               *)

Guards == {1, 2}

MaxLockLen == 2

\* What a file holds before any guard acts: "OK".
OldContent == <<79, 75>>

InitLock ==
  /\ \E file \in {NoFile, OldContent} : dir = DirWith(file) /\ inode = InodesWith(file)
  /\ lock = [p \in Procs |-> 0]
  /\ index = [p \in Procs |-> Index_new]
  /\ pc = [p \in Procs |-> "idle"]
  /\ ret = [p \in Procs |-> "Ok"]
  /\ last = [op |-> "none", atHold |-> [g \in Guards |-> NoFile], left |-> 0]
  /\ nOps = 0
  /\ job = [p \in Procs |-> NoJob]
  /\ refLock = [p \in Procs |-> 0]
  /\ objects = NoObjects
  /\ store = NoStore
  /\ tree = NoTree

\* The state after guard g's call returned r.  Besides the call, `last`
\* keeps two things of the past: atHold[g], what P held when the guard g,
\* which holds the lock, took it, and left, the lock file a dropped guard
\* left on disk (0: none).
LockStep(g, name, r) ==
  LET lock2 == [lock EXCEPT ![g] = r.lock]
      fs2   == Reclaim(r.fs, {lock2[p] : p \in Procs} \ {0})
  IN  /\ dir' = fs2.dir
      /\ inode' = fs2.inode
      /\ lock' = lock2
      /\ last' = [op |-> name, proc |-> g, res |-> r.res,
                  before |-> [dir |-> dir, inode |-> inode, lock |-> lock,
                              atHold |-> last.atHold[g]],
                  atHold |-> IF lock[g] = 0 /\ r.lock # 0
                             THEN [last.atHold EXCEPT ![g] = Content(Fs, "index")]
                             ELSE IF r.lock = 0
                             THEN [last.atHold EXCEPT ![g] = NoFile]
                             ELSE last.atHold,
                  left   |-> IF name = "drop" /\ dir[LockPath("index")] = lock[g]
                             THEN lock[g]
                             ELSE last.left]
      /\ UNCHANGED <<index, pc, ret, nOps, job, refLock, objects, store, tree>>

LkHold(g) == LockStep(g, "hold_for_update", hold_for_update(Fs, lock[g], "index", Handles))

\* Each guard writes its own number, so that bytes show who wrote them.
LkWrite(g) ==
  /\ lock[g] # 0 => Len(inode[lock[g]]) < MaxLockLen
  /\ LockStep(g, "write", Lockfile_write(Fs, lock[g], <<g>>))

LkCommit(g) == LockStep(g, "commit", commit(Fs, lock[g], "index"))

LkRollback(g) == LockStep(g, "rollback", rollback(Fs, lock[g], "index"))

\* The guard goes out of scope while it holds the lock: Lockfile has no
\* Drop, so the File in `lock` is closed and nothing else happens.
LkDrop(g) ==
  /\ lock[g] # 0
  /\ LockStep(g, "drop", [fs |-> Fs, lock |-> 0, res |-> "Ok"])

NextLock ==
  \E g \in Guards :
    LkHold(g) \/ LkWrite(g) \/ LkCommit(g) \/ LkRollback(g) \/ LkDrop(g)

SpecLock == InitLock /\ [][NextLock]_vars

Held(g) == lock[g] # 0

\* C1: at most one guard on a path is in the held state at any time.
C1_MutualExclusion == Cardinality({g \in Guards : Held(g)}) <= 1

\* C5: while another guard holds the lock, hold_for_update of a guard that
\* does not hold it returns LockDenied and changes neither P nor P.lock.
C5_SecondHolderDenied ==
  (/\ last.op = "hold_for_update"
   /\ last.before.lock[last.proc] = 0
   /\ \E a \in Guards \ {last.proc} : last.before.lock[a] # 0)
  => /\ last.res = "LockDenied"
     /\ dir = last.before.dir
     /\ inode = last.before.inode

\* C21: write on a guard that holds no lock (never acquired, or already
\* committed or rolled back) fails with StaleLock and writes no bytes to
\* P.lock or to P.
C21_WriteWithoutLock ==
  (last.op = "write" /\ last.before.lock[last.proc] = 0)
  => /\ last.res = "StaleLock"
     /\ dir = last.before.dir
     /\ inode = last.before.inode

\* A guard that committed writes while the other guard's P.lock is on disk.
C21_Witness ==
  /\ last.op = "write" /\ last.before.lock[last.proc] = 0
  /\ last.res = "StaleLock"
  /\ dir["index"] # 0 /\ inode[dir["index"]] = <<last.proc>>
  /\ \E a \in Guards \ {last.proc} : lock[a] # 0 /\ dir["index.lock"] = lock[a]

\* C22: commit on a guard that holds the lock makes the content of P the
\* bytes written through that guard since its hold_for_update, removes
\* P.lock in the same step, and leaves the guard not held.
C22_CommitPublishes ==
  (last.op = "commit" /\ last.before.lock[last.proc] # 0)
  => /\ Content(Fs, "index") = last.before.inode[last.before.lock[last.proc]]
     /\ dir["index.lock"] = 0
     /\ lock[last.proc] = 0

\* C23: rollback on a guard that holds the lock leaves the content of P as
\* it was before hold_for_update, deletes P.lock and leaves the guard not
\* held.
C23_RollbackRestores ==
  (last.op = "rollback" /\ last.before.lock[last.proc] # 0)
  => /\ Content(Fs, "index") = last.before.atHold
     /\ dir["index.lock"] = 0
     /\ lock[last.proc] = 0

\* C24: once a guard that holds the lock is dropped without commit or
\* rollback, P.lock stays on disk and every later hold_for_update of a
\* guard without the lock ends with LockDenied; no call removes the file.
C24_LeftoverLockStays ==
  last.left # 0
  => /\ dir["index.lock"] = last.left
     /\ (last.op = "hold_for_update" /\ last.before.lock[last.proc] = 0)
          => last.res = "LockDenied"

\* C25: commit or rollback on a guard that does not hold the lock returns
\* StaleLock and neither renames nor deletes P.lock nor changes P.
C25_StaleLockReturned ==
  (last.op \in {"commit", "rollback"} /\ last.before.lock[last.proc] = 0)
  => /\ last.res = "StaleLock"
     /\ dir = last.before.dir
     /\ inode = last.before.inode

\* C36: hold_for_update on a guard that already holds the lock returns Ok
\* without trying to create P.lock again and without changing the held
\* handle or any file; it does not report LockDenied for its own lock file.
C36_HoldAgain ==
  (last.op = "hold_for_update" /\ last.before.lock[last.proc] # 0)
  => /\ last.res = "Ok"
     /\ lock = last.before.lock
     /\ dir = last.before.dir
     /\ inode = last.before.inode

\* The guard holds P.lock, has written to it, and called hold_for_update.
C36_Witness ==
  /\ last.op = "hold_for_update" /\ last.before.lock[last.proc] # 0
  /\ dir["index.lock"] = lock[last.proc]
  /\ inode[lock[last.proc]] = <<last.proc>>
  /\ last.res = "Ok"

----------------------------------------------------------------------------
(* SpecFile: an Index is filled by add, written with write_updates, the    *)
(* file has at most one byte changed, and the file is loaded again.        *)

FilePaths == {pA, pAB, pF}

\* The values a byte may be changed to.  255 makes the signature invalid
\* UTF-8; elsewhere it is left out, since 255 in the top byte of a u32 field
\* is beyond the integers of the model.
CorruptValues(pos, old) ==
  ({(old + 1) % 256, 0} \cup (IF pos <= 4 THEN {255} ELSE {})) \ {old}

InitFile ==
  /\ dir = EmptyDir
  /\ inode = EmptyInodes
  /\ lock = [p \in Procs |-> 0]
  /\ index = [p \in Procs |-> Index_new]
  /\ pc = [p \in Procs |-> IF p = 1 THEN "adding" ELSE "idle"]
  /\ ret = [p \in Procs |-> "Ok"]
  /\ last = NoCall
  /\ nOps = 0
  /\ job = [p \in Procs |-> NoJob]
  /\ refLock = [p \in Procs |-> 0]
  /\ objects = NoObjects
  /\ store = NoStore
  /\ tree = NoTree

\* index.add(path, oid, stat)
FAdd(path, oid, stat) ==
  /\ pc[1] = "adding"
  /\ \E order \in ChildOrders(index[1], path) :
       index' = [index EXCEPT ![1] = Index_add(index[1], path, oid, stat, order)]
  /\ last' = [op |-> "add"]
  /\ UNCHANGED <<dir, inode, lock, pc, ret, nOps, job, refLock, objects, store, tree>>

\* index.write_updates()
FWrite ==
  /\ pc[1] = "adding"
  /\ LET r   == write_updates(Fs, lock[1], index[1], Handles)
         fs2 == Reclaim(r.fs, {r.lock} \ {0})
     IN  /\ dir' = fs2.dir
         /\ inode' = fs2.inode
         /\ lock' = [lock EXCEPT ![1] = r.lock]
         /\ index' = [index EXCEPT ![1] = r.ix]
         /\ pc' = [pc EXCEPT ![1] = IF r.res = "Ok" THEN "written" ELSE "failed"]
         /\ last' = [op |-> "write_updates", res |-> r.res]
  /\ UNCHANGED <<ret, nOps, job, refLock, objects, store, tree>>

\* One byte of the persisted index file changes.
FCorrupt(pos) ==
  /\ pc[1] = "written"
  /\ pos \in 1..Len(inode[dir["index"]])
  /\ \E v \in CorruptValues(pos, inode[dir["index"]][pos]) :
       inode' = [inode EXCEPT ![dir["index"]][pos] = v]
  /\ pc' = [pc EXCEPT ![1] = "corrupted"]
  /\ last' = [op |-> "corrupt", pos |-> pos]
  /\ UNCHANGED <<dir, lock, index, ret, nOps, job, refLock, objects, store, tree>>

\* Index::new(path).load(): index[1] still holds what was written, the
\* fresh Index is index[2].
FLoad ==
  /\ pc[1] \in {"written", "corrupted"}
  /\ LET r == Index_load(Index_new, Content(Fs, "index")) IN
       /\ index' = [index EXCEPT ![2] = r.ix]
       /\ last' = [op |-> "load", res |-> r.err, corrupted |-> pc[1] = "corrupted",
                   pos |-> IF pc[1] = "corrupted" THEN last.pos ELSE 0]
  /\ pc' = [pc EXCEPT ![1] = "loaded"]
  /\ UNCHANGED <<dir, inode, lock, ret, nOps, job, refLock, objects, store, tree>>

NextFile ==
  \/ \E path \in FilePaths, f \in Staged : FAdd(path, f.oid, f.stat)
  \/ FWrite
  \/ \E pos \in 1..(HEADER_SIZE + 2 * 72 + CHECKSUM_SIZE) : FCorrupt(pos)
  \/ FLoad

SpecFile == InitFile /\ [][NextFile]_vars

\* What entries() shows: path, mode and ObjectId, in key order.
RECURSIVE Listing(_, _)
Listing(f, keys) ==
  IF keys = <<>> THEN <<>>
  ELSE <<[path |-> f[Head(keys)].path, mode |-> f[Head(keys)].mode,
          oid |-> f[Head(keys)].oid]>> \o Listing(f, Tail(keys))

Entries(ix) == Listing(ix.entries, SortedPaths(DOMAIN ix.entries))

\* C9: index round-trip: write_updates followed by load on a fresh Index
\* reproduces the same entries (path, mode, ObjectId) in the same order.
C9_RoundTrip ==
  (last.op = "load" /\ ~last.corrupted)
  => /\ last.res = "Ok"
     /\ Entries(index[2]) = Entries(index[1])

\* Two entries, one regular and one executable, were written and loaded back.
C9_Witness ==
  /\ last.op = "load" /\ ~last.corrupted
  /\ DOMAIN index[2].entries = {pAB, pF}
  /\ index[2].entries[pAB].mode = REGULAR_MODE
  /\ index[2].entries[pF].mode = EXECUTABLE_MODE

\* The errors of checksum.rs a load can end with.
ChecksumErrors == {"BadChecksum", "CouldNotReadFile"}

\* The errors read_header ends with.
HeaderErrors == {"BadHeader", "IncorrectSignature", "IncorrectVersion"}

C32_FailedLoadExposesNothing ==
  (last.op = "load" /\ last.res # "Ok")
    => /\ DOMAIN index[2].entries = {}
       /\ \A path \in IndexPaths : ~is_tracked(index[2], path)

----------------------------------------------------------------------------
(* SpecHeader: the index file is what another program left: any of a few   *)
(* signatures and versions in front of the rest of a file write_updates    *)
(* wrote.  An Index that holds entries of its own loads it.                *)

\* DIRC, dirc, DIRK, a two-byte character then RC, and two byte strings
\* that are not UTF-8.
Signatures ==
  {SIGNATURE, <<100, 105, 114, 99>>, <<68, 73, 82, 75>>, <<195, 169, 82, 67>>,
   <<255, 73, 82, 67>>, <<68, 73, 82, 195>>}

\* 512 is 2 with its low bytes swapped.
Versions == {0, 1, VERSION, 3, 512}

\* What follows the version in the files of earlier runs.
Rests == {SubSeq(f, 9, Len(f)) : f \in SavedFiles \ {NoFile}}

InitHeader ==
  /\ \E sig \in Signatures, v \in Versions, rest \in Rests :
       /\ dir = [EmptyDir EXCEPT !["index"] = 1]
       /\ inode = [EmptyInodes EXCEPT ![1] = sig \o ToBe(v, 4) \o rest]
  /\ lock = [p \in Procs |-> 0]
  /\ index = [p \in Procs |-> Index_new]
  /\ pc = [p \in Procs |-> IF p = 1 THEN "made" ELSE "idle"]
  /\ ret = [p \in Procs |-> "Ok"]
  /\ last = NoCall
  /\ nOps = 0
  /\ job = [p \in Procs |-> NoJob]
  /\ refLock = [p \in Procs |-> 0]
  /\ objects = NoObjects
  /\ store = NoStore
  /\ tree = NoTree

\* index.add(path, oid, stat) before the load
HAdd(path, oid, stat) ==
  /\ pc[1] = "made"
  /\ index' = [index EXCEPT ![1] = Index_add(index[1], path, oid, stat, <<>>)]
  /\ pc' = [pc EXCEPT ![1] = "added"]
  /\ last' = [op |-> "add"]
  /\ UNCHANGED <<dir, inode, lock, ret, nOps, job, refLock, objects, store, tree>>

\* index.load()
HLoad ==
  /\ pc[1] \in {"made", "added"}
  /\ LET r == Index_load(index[1], Content(Fs, "index")) IN
       /\ index' = [index EXCEPT ![1] = r.ix]
       /\ last' = [op |-> "load", res |-> r.err]
  /\ pc' = [pc EXCEPT ![1] = "loaded"]
  /\ UNCHANGED <<dir, inode, lock, ret, nOps, job, refLock, objects, store, tree>>

NextHeader ==
  \/ HAdd(pF, Oid(34), StatExecutable)
  \/ HLoad

SpecHeader == InitHeader /\ [][NextHeader]_vars

\* C31: load validates the 12-byte header before it reads entries: a
\* signature that is not UTF-8 ends with BadHeader, one that is not DIRC
\* with IncorrectSignature, DIRC with a version other than 2 with
\* IncorrectVersion (the signature is looked at first), and such a load
\* never succeeds nor stores an entry.
C31_HeaderValidated ==
  last.op = "load" =>
    LET file      == Content(Fs, "index")
        signature == SubSeq(file, 1, 4)
        version   == FromBe(SubSeq(file, 5, 8))
    IN  /\ ~IsUtf8(signature) => last.res = "BadHeader"
        /\ (IsUtf8(signature) /\ signature # SIGNATURE)
             => last.res = "IncorrectSignature"
        /\ (signature = SIGNATURE /\ version # VERSION)
             => last.res = "IncorrectVersion"
        /\ (signature # SIGNATURE \/ version # VERSION)
             => DOMAIN index[1].entries = {}

\* Both the signature and the version were wrong, and the signature was
\* reported.
C31_Witness ==
  /\ last.op = "load" /\ last.res = "IncorrectSignature"
  /\ SubSeq(Content(Fs, "index"), 1, 4) = <<68, 73, 82, 75>>
  /\ FromBe(SubSeq(Content(Fs, "index"), 5, 8)) = 3

----------------------------------------------------------------------------
(* SpecCli: two runs of the command line at once in one repository, each   *)
(* `add` or `commit`, every call on the file system a step of its own.     *)

Sessions == {1, 2}

\* The file each session stages when its `add` names one.
PathOf(p) == IF p = 1 THEN pA ELSE pF

StagedOf(p) == IF p = 1 THEN [oid |-> Oid(12), stat |-> StatRegular]
               ELSE [oid |-> Oid(34), stat |-> StatExecutable]

\* The command lines of a session: `add` of nothing that lists a file,
\* `add` of one file, `commit`.
Jobs(p) == {[cmd |-> "add", paths |-> <<>>, todo |-> <<>>],
            [cmd |-> "add", paths |-> <<PathOf(p)>>, todo |-> <<PathOf(p)>>],
            [cmd |-> "commit", paths |-> <<>>, todo |-> <<>>]}

\* The bytes of oid.as_str() for the commit a session stores.
CommitHex(p) == [i \in 1..40 |-> 48 + p]

Newline == <<10>>

OldHead == [i \in 1..40 |-> 102] \o Newline

\* The index file an earlier run left, and the HEAD of an earlier commit.
CliFiles == {NoFile, IndexFile(Index_add(Index_new, pABC, Oid(12), StatRegular, <<>>))}

InitCli ==
  /\ \E file \in CliFiles :
       /\ dir = [EmptyDir EXCEPT !["index"] = IF file = NoFile THEN 0 ELSE 1,
                                 !["HEAD"] = 2]
       /\ inode = [EmptyInodes EXCEPT ![1] = IF file = NoFile THEN <<>> ELSE file,
                                      ![2] = OldHead]
  /\ lock = [p \in Procs |-> 0]
  /\ refLock = [p \in Procs |-> 0]
  /\ objects = NoObjects
  /\ store = NoStore
  /\ tree = NoTree
  /\ index = [p \in Procs |-> Index_new]
  /\ job \in {j \in [Procs -> UNION {Jobs(p) : p \in Sessions} \cup {NoJob}] :
                \A p \in Procs : IF p \in Sessions THEN j[p] \in Jobs(p)
                                 ELSE j[p] = NoJob}
  /\ pc = [p \in Procs |-> IF p \in Sessions THEN "start" ELSE "none"]
  /\ ret = [p \in Procs |-> "none"]
  /\ last = NoCall
  /\ nOps = 0

\* The file system and the guards after a call of session p on its index
\* guard returned r.
CliFs(p, r) ==
  LET lock2 == [lock EXCEPT ![p] = r.lock]
      fs2   == Reclaim(r.fs, ({lock2[q] : q \in Procs} \cup {refLock[q] : q \in Procs}) \ {0})
  IN  /\ dir' = fs2.dir
      /\ inode' = fs2.inode
      /\ lock' = lock2
      /\ UNCHANGED refLock

\* Likewise for the guard of Refs::update_head.
CliRefFs(p, r) ==
  LET lock2 == [refLock EXCEPT ![p] = r.lock]
      fs2   == Reclaim(r.fs, ({lock[q] : q \in Procs} \cup {lock2[q] : q \in Procs}) \ {0})
  IN  /\ dir' = fs2.dir
      /\ inode' = fs2.inode
      /\ refLock' = lock2
      /\ UNCHANGED lock

\* The closure returned Err(e): the or_else arm runs next.
Fail(p, e) ==
  /\ pc' = [pc EXCEPT ![p] = "cleanup"]
  /\ ret' = [ret EXCEPT ![p] = e]

Goto(p, where) ==
  /\ pc' = [pc EXCEPT ![p] = where]
  /\ UNCHANGED ret

\* index.load_for_update() in add_files_to_repository, index.load() in
\* create_commit: load_for_update is load and nothing more.
CliLoad(p) ==
  /\ pc[p] = "start"
  /\ LET r == Index_load(index[p], Content(Fs, "index"))
     IN  /\ index' = [index EXCEPT ![p] = r.ix]
         /\ IF r.err # "Ok" THEN Fail(p, r.err)
            ELSE Goto(p, IF job[p].cmd = "add" THEN "stage" ELSE "build")
  /\ UNCHANGED <<dir, inode, lock, refLock, job, last, nOps, objects, store, tree>>

\* One turn of the loop over the listed files: read, stat, store, add.
CliAdd(p) ==
  /\ pc[p] = "stage"
  /\ job[p].todo # <<>>
  /\ \E order \in ChildOrders(index[p], Head(job[p].todo)) :
       index' = [index EXCEPT ![p] =
                   Index_add(index[p], Head(job[p].todo), StagedOf(p).oid,
                             StagedOf(p).stat, order)]
  /\ job' = [job EXCEPT ![p].todo = Tail(@)]
  /\ UNCHANGED <<dir, inode, lock, refLock, pc, ret, last, nOps, objects, store, tree>>

\* canonicalize, list_files, read_file, stat_file or database.store fails.
CliAddFails(p) ==
  /\ pc[p] = "stage"
  /\ job[p].paths # <<>>
  /\ Fail(p, "IoError")
  /\ UNCHANGED <<dir, inode, lock, refLock, index, job, last, nOps, objects, store, tree>>

\* write_updates, `if !self.changed { self.lockfile.rollback()?; }`: an
\* error returns, success goes on to hold_for_update.
CliWriteRollback(p) ==
  /\ pc[p] = "stage"
  /\ job[p].todo = <<>>
  /\ ~index[p].changed
  /\ LET r == rollback(Fs, lock[p], "index")
     IN  /\ CliFs(p, r)
         /\ IF r.res # "Ok" THEN Fail(p, r.res) ELSE Goto(p, "hold")
  /\ UNCHANGED <<index, job, last, nOps, objects, store, tree>>

\* write_updates, self.lockfile.hold_for_update()?
CliHold(p) ==
  /\ \/ pc[p] = "hold"
     \/ pc[p] = "stage" /\ job[p].todo = <<>> /\ index[p].changed
  /\ LET r == hold_for_update(Fs, lock[p], "index", Handles)
     IN  /\ CliFs(p, r)
         /\ IF r.res # "Ok" THEN Fail(p, r.res) ELSE Goto(p, "header")
  /\ UNCHANGED <<index, job, last, nOps, objects, store, tree>>

\* One write of write_updates through the guard.
CliWrite(p, at, bytes, next) ==
  /\ pc[p] = at
  /\ LET r == Lockfile_write(Fs, lock[p], bytes)
     IN  /\ CliFs(p, r)
         /\ IF r.res # "Ok" THEN Fail(p, r.res) ELSE Goto(p, next)
  /\ UNCHANGED <<index, job, last, nOps, objects, store, tree>>

CliWriteHeader(p) == CliWrite(p, "header", HeaderBytes(index[p]), "body")

CliWriteBody(p) == CliWrite(p, "body", BodyBytes(index[p]), "checksum")

CliWriteChecksum(p) == CliWrite(p, "checksum", ChecksumBytes(index[p]), "commit")

\* write_updates, self.lockfile.commit()? and self.changed = false
CliCommit(p) ==
  /\ pc[p] = "commit"
  /\ LET r == commit(Fs, lock[p], "index")
     IN  /\ CliFs(p, r)
         /\ IF r.res # "Ok" THEN Fail(p, r.res) /\ UNCHANGED index
            ELSE /\ pc' = [pc EXCEPT ![p] = "done"]
                 /\ ret' = [ret EXCEPT ![p] = "Ok"]
                 /\ index' = [index EXCEPT ![p].changed = FALSE]
  /\ UNCHANGED <<job, last, nOps, objects, store, tree>>

\* create_commit between load and update_head: the trees and the commit
\* are stored, the author is read from the environment, the message taken.
CliBuild(p) ==
  /\ pc[p] = "build"
  /\ \/ Goto(p, "refhold")
     \/ Fail(p, "IoError")
  /\ UNCHANGED <<dir, inode, lock, refLock, index, job, last, nOps, objects, store, tree>>

\* Refs::update_head, lock.hold_for_update()?
CliRefHold(p) ==
  /\ pc[p] = "refhold"
  /\ LET r == hold_for_update(Fs, refLock[p], "HEAD", Handles)
     IN  /\ CliRefFs(p, r)
         /\ IF r.res # "Ok" THEN Fail(p, r.res) ELSE Goto(p, "refoid")
  /\ UNCHANGED <<index, job, last, nOps, objects, store, tree>>

CliRefWrite(p, at, bytes, next) ==
  /\ pc[p] = at
  /\ LET r == Lockfile_write(Fs, refLock[p], bytes)
     IN  /\ CliRefFs(p, r)
         /\ IF r.res # "Ok" THEN Fail(p, r.res) ELSE Goto(p, next)
  /\ UNCHANGED <<index, job, last, nOps, objects, store, tree>>

\* Refs::update_head, the two write_all calls.
CliRefWriteOid(p) == CliRefWrite(p, "refoid", CommitHex(p), "refnl")

CliRefWriteNewline(p) == CliRefWrite(p, "refnl", Newline, "refcommit")

\* Refs::update_head, lock.commit()?
CliRefCommit(p) ==
  /\ pc[p] = "refcommit"
  /\ LET r == commit(Fs, refLock[p], "HEAD")
     IN  /\ CliRefFs(p, r)
         /\ IF r.res # "Ok" THEN Fail(p, r.res)
            ELSE /\ pc' = [pc EXCEPT ![p] = "done"]
                 /\ ret' = [ret EXCEPT ![p] = "Ok"]
  /\ UNCHANGED <<index, job, last, nOps, objects, store, tree>>

\* The or_else arm of both commands: LockDenied leaves the lock file, any
\* other error rolls the index guard back, and a failure of that rollback
\* is the error returned.
CliCleanup(p) ==
  /\ pc[p] = "cleanup"
  /\ IF ret[p] = "LockDenied"
     THEN /\ pc' = [pc EXCEPT ![p] = "failed"]
          /\ UNCHANGED <<dir, inode, lock, refLock, ret>>
     ELSE LET r == rollback(Fs, lock[p], "index")
          IN  /\ CliFs(p, r)
              /\ pc' = [pc EXCEPT ![p] = "failed"]
              /\ ret' = [ret EXCEPT ![p] = IF r.res # "Ok" THEN r.res ELSE @]
  /\ UNCHANGED <<index, job, last, nOps, objects, store, tree>>

NextCli ==
  \E p \in Sessions :
    \/ CliLoad(p)
    \/ CliAdd(p)
    \/ CliAddFails(p)
    \/ CliWriteRollback(p)
    \/ CliHold(p)
    \/ CliWriteHeader(p)
    \/ CliWriteBody(p)
    \/ CliWriteChecksum(p)
    \/ CliCommit(p)
    \/ CliBuild(p)
    \/ CliRefHold(p)
    \/ CliRefWriteOid(p)
    \/ CliRefWriteNewline(p)
    \/ CliRefCommit(p)
    \/ CliCleanup(p)

SpecCli == InitCli /\ [][NextCli]_vars

\* A complete index file: it loads, and it is byte for byte what
\* write_updates writes for the entries it loads to.
CompleteIndexFile(file) ==
  LET r == Index_load(Index_new, file)
  IN  /\ r.err = "Ok"
      /\ file = IndexFile(r.ix)

CompleteHeadFile(file) ==
  \/ file = OldHead
  \/ \E p \in Sessions : file = CommitHex(p) \o Newline

\* C2: at every instant the index file and HEAD are absent as they began,
\* or hold the complete content an earlier run left, or the complete
\* content one holder wrote between its hold_for_update and its commit;
\* a partially written file is never seen under either name.
C2_NoPartialWrite ==
  /\ dir["index"] # 0 => CompleteIndexFile(Content(Fs, "index"))
  /\ dir["HEAD"] # 0 => CompleteHeadFile(Content(Fs, "HEAD"))

\* The paths of the index file as a fresh load reads them.
PersistedPaths == DOMAIN Index_load(Index_new, Content(Fs, "index")).ix.entries

\* C3: when two sessions that load_for_update, add non-conflicting paths
\* and write_updates have both succeeded, the index file holds the entries
\* both of them added.
C3_NoLostUpdate ==
  (\A p \in Sessions : job[p].cmd = "add" /\ pc[p] = "done" /\ ret[p] = "Ok")
    => \A p \in Sessions : \A i \in 1..Len(job[p].paths) :
         job[p].paths[i] \in PersistedPaths

\* C4: once load_for_update has returned Ok, index.lock exists and is held
\* by that Index, so no other session is then between its own
\* load_for_update and write_updates; a session that has only called
\* load holds no lock.
C4_LoadForUpdateLocks ==
  \A p \in Sessions :
    /\ (job[p].cmd = "add" /\ pc[p] = "stage")
         => (lock[p] # 0 /\ dir["index.lock"] = lock[p])
    /\ (job[p].cmd = "commit" /\ pc[p] = "build") => lock[p] = 0

\* C26: in any interleaving of add_files_to_repository and create_commit,
\* an invocation never deletes or renames an index.lock that another
\* invocation created: a step that takes the name index.lock away from the
\* file a holder created is a step of that holder.
C26_ForeignLockKept ==
  [][\A q \in Sessions :
       (lock[q] # 0 /\ dir["index.lock"] = lock[q] /\ dir'["index.lock"] # lock[q])
         => pc'[q] # pc[q]]_vars

----------------------------------------------------------------------------
(* SpecWrite: runs of `add` one after another in a repository that starts  *)
(* without an index file.  Process 1 is the run: it makes an Index and      *)
(* loads it, then adds, loads and writes, each method call one step;        *)
(* process 2 is another program's guard on the index file, which it holds   *)
(* and releases.                                                            *)

MaxRuns == 2

WritePaths == {pA, pF}

\* The stat and blob of the workspace file at a path.
StagedAt(path) == IF path = pF THEN [oid |-> Oid(34), stat |-> StatExecutable]
                  ELSE [oid |-> Oid(12), stat |-> StatRegular]

InitWrite ==
  /\ dir = EmptyDir
  /\ inode = EmptyInodes
  /\ lock = [p \in Procs |-> 0]
  /\ refLock = [p \in Procs |-> 0]
  /\ objects = NoObjects
  /\ store = NoStore
  /\ tree = NoTree
  /\ index = [p \in Procs |-> Index_new]
  /\ job = [p \in Procs |-> NoJob]
  /\ pc = [p \in Procs |-> "none"]
  /\ ret = [p \in Procs |-> "none"]
  /\ last = NoCall
  /\ nOps = 1

\* What a call is remembered by: the state it was made in.
Before == [index |-> index[1], file |-> Content(Fs, "index"),
           lockfile |-> dir["index.lock"], written |-> Content(Fs, "index.lock"),
           held |-> lock[1]]

\* The next run, add_files_to_repository up to its first call:
\* Index::new(git_path.join("index")) and index.load_for_update(), which is
\* index.load(); the Index of the run before is dropped, and with it the
\* handle of its guard.
WNew ==
  /\ nOps < MaxRuns
  /\ nOps' = nOps + 1
  /\ index' = [index EXCEPT ![1] = Index_load(Index_new, Content(Fs, "index")).ix]
  /\ lock' = [lock EXCEPT ![1] = 0]
  /\ LET fs2 == Reclaim(Fs, {lock[2]} \ {0})
     IN  dir' = fs2.dir /\ inode' = fs2.inode
  /\ last' = NoCall
  /\ UNCHANGED <<pc, ret, refLock, job, objects, store, tree>>

\* index.load() on the Index of the run
WLoad ==
  /\ LET r == Index_load(index[1], Content(Fs, "index"))
     IN  /\ index' = [index EXCEPT ![1] = r.ix]
         /\ last' = [op |-> "load", res |-> r.err, before |-> Before]
  /\ UNCHANGED <<dir, inode, lock, refLock, pc, ret, nOps, job, objects, store, tree>>

\* index.add(&pathname, blob_oid, stat)
WAdd(path) ==
  /\ \E order \in ChildOrders(index[1], path) :
       index' = [index EXCEPT ![1] =
                   Index_add(index[1], path, StagedAt(path).oid, StagedAt(path).stat, order)]
  /\ last' = NoCall
  /\ UNCHANGED <<dir, inode, lock, refLock, pc, ret, nOps, job, objects, store, tree>>

\* index.write_updates()
WWrite ==
  /\ LET r   == write_updates(Fs, lock[1], index[1], Handles)
         fs2 == Reclaim(r.fs, {r.lock, lock[2]} \ {0})
     IN  /\ dir' = fs2.dir
         /\ inode' = fs2.inode
         /\ lock' = [lock EXCEPT ![1] = r.lock]
         /\ index' = [index EXCEPT ![1] = r.ix]
         /\ last' = [op |-> "write_updates", res |-> r.res, before |-> Before]
  /\ UNCHANGED <<refLock, pc, ret, nOps, job, objects, store, tree>>

\* hold_for_update() on a guard: index.lockfile_mut() for g = 1, the other
\* program's guard for g = 2.
WHold(g) ==
  /\ LET r == hold_for_update(Fs, lock[g], "index", Handles)
     IN  /\ dir' = r.fs.dir
         /\ inode' = r.fs.inode
         /\ lock' = [lock EXCEPT ![g] = r.lock]
         /\ last' = NoCall
  /\ pc' = [pc EXCEPT ![g] = "guard"]
  /\ UNCHANGED <<refLock, index, ret, nOps, job, objects, store, tree>>

\* The other program, holding its guard, rolls it back.
WRelease ==
  /\ lock[2] # 0
  /\ LET r   == rollback(Fs, lock[2], "index")
         fs2 == Reclaim(r.fs, {lock[1]} \ {0})
     IN  /\ dir' = fs2.dir
         /\ inode' = fs2.inode
         /\ lock' = [lock EXCEPT ![2] = r.lock]
         /\ last' = NoCall
  /\ UNCHANGED <<refLock, index, pc, ret, nOps, job, objects, store, tree>>

NextWrite ==
  \/ WNew
  \/ WLoad
  \/ \E path \in WritePaths : WAdd(path)
  \/ WWrite
  \/ \E g \in {1, 2} : WHold(g)
  \/ WRelease

SpecWrite == InitWrite /\ [][NextWrite]_vars

\* The state of the index file and its lock file is what the last call found.
Untouched ==
  /\ Content(Fs, "index") = last.before.file
  /\ dir["index.lock"] = last.before.lockfile
  /\ Content(Fs, "index.lock") = last.before.written

\* C11: write_updates on an index with no change since load writes
\* nothing: the index file is byte-identical afterwards, nothing is written
\* to a lock file, the Index is as it was, and the only effect is that a
\* lock file this Index held is gone.
C11_CleanWriteWritesNothing ==
  (last.op = "write_updates" /\ ~last.before.index.changed)
    => /\ Content(Fs, "index") = last.before.file
       /\ index[1] = last.before.index
       /\ lock[1] = 0
       /\ IF last.before.held # 0 /\ last.before.held = last.before.lockfile
          THEN dir["index.lock"] = 0
          ELSE Untouched

\* The bytes of the entries in the order given.
RECURSIVE EntriesInOrder(_, _)
EntriesInOrder(f, keys) ==
  IF keys = <<>> THEN <<>>
  ELSE Entry_bytes(f[Head(keys)]) \o EntriesInOrder(f, Tail(keys))

\* file is: "DIRC", version 2, the number of entries, every entry in
\* ascending path order, the digest of all bytes before it.
WrittenIndex(file, entries) ==
  LET keys == SortedPaths(DOMAIN entries)
      n    == Len(file)
  IN  /\ n >= HEADER_SIZE + CHECKSUM_SIZE
      /\ SubSeq(file, 1, 4) = <<68, 73, 82, 67>>
      /\ FromBe(SubSeq(file, 5, 8)) = 2
      /\ FromBe(SubSeq(file, 9, 12)) = Cardinality(DOMAIN entries)
      /\ \A i, j \in 1..Len(keys) : i < j => PathLess(keys[i], keys[j])
      /\ SubSeq(file, 13, n - 20) = EntriesInOrder(entries, keys)
      /\ SubSeq(file, n - 19, n) = Sha1(file, n - 20)

\* C12: a write_updates on a dirty index that succeeds leaves the index
\* file as header, entries in ascending path order and digest, no
\* index.lock, and the index clean with the entries it had.
C12_DirtyWrite ==
  (last.op = "write_updates" /\ last.before.index.changed /\ last.res = "Ok")
    => /\ dir["index"] # 0
       /\ WrittenIndex(Content(Fs, "index"), last.before.index.entries)
       /\ dir["index.lock"] = 0
       /\ lock[1] = 0
       /\ ~index[1].changed
       /\ index[1].entries = last.before.index.entries

\* Only load, add and write_updates have been called: no guard was taken
\* directly.
OnlySessions == \A p \in Procs : pc[p] # "guard"

\* The entries a fresh Index loads from a file.
Persisted(file) == Index_load(Index_new, file).ix.entries

Conflict(p, q) == IsAncestor(p, q) \/ IsAncestor(q, p)

\* C13: sessions of load_for_update, add, write_updates one after another
\* accumulate: after a write_updates that succeeds, a fresh load yields
\* every entry of the index in ascending path order, and every entry that
\* was persisted before is still there unless a path added since
\* conflicts with it or replaces it.
C13_Accumulate ==
  (OnlySessions /\ last.op = "write_updates" /\ last.res = "Ok")
    => LET old == Persisted(last.before.file)
           new == Persisted(Content(Fs, "index"))
       IN  /\ Entries([entries |-> new]) = Entries(index[1])
           /\ \A path \in DOMAIN old :
                \/ path \in DOMAIN new /\ new[path] = old[path]
                \/ \E q \in DOMAIN new :
                     /\ q \notin DOMAIN old \/ new[q] # old[q]
                     /\ q = path \/ Conflict(q, path)

\* The second run added f to the a the first run had persisted.
C13_Witness ==
  /\ OnlySessions /\ last.op = "write_updates" /\ last.res = "Ok"
  /\ nOps = 2
  /\ DOMAIN Persisted(last.before.file) = {pA}
  /\ SortedPaths(DOMAIN Persisted(Content(Fs, "index"))) = <<pA, pF>>

\* C14: load when the index file does not exist succeeds and yields an
\* empty, clean index in which nothing is tracked.
C14_LoadAbsent ==
  (last.op = "load" /\ last.before.file = NoFile)
    => /\ last.res = "Ok"
       /\ DOMAIN index[1].entries = {}
       /\ ~index[1].changed
       /\ \A path \in IndexPaths : ~is_tracked(index[1], path)

\* The Index that was loaded held entries from earlier add calls.
C14_Witness ==
  /\ last.op = "load" /\ last.before.file = NoFile
  /\ DOMAIN last.before.index.entries = {pA, pF}
  /\ last.before.index.changed

\* C28: the dirty flag of the Index is false after new(), after load() and
\* after a write_updates() that succeeds, true after every add(), and as it
\* was after a write_updates() that fails; no other call changes it.
C28_DirtyFlag ==
  [][/\ (nOps' # nOps /\ WNew) => ~index'[1].changed
     /\ (last'.op = "load" /\ WLoad) => ~index'[1].changed
     /\ (last'.op = "none" /\ \E path \in WritePaths : WAdd(path))
          => index'[1].changed
     /\ (last'.op = "write_updates" /\ WWrite)
          => (index'[1].changed = (last'.res # "Ok" /\ index[1].changed))
     /\ (nOps' = nOps /\ ((\E g \in {1, 2} : WHold(g)) \/ WRelease))
          => index'[1].changed = index[1].changed]_vars

\* A write_updates of a dirty index has failed and the index is dirty still.
C28_Witness ==
  /\ last.op = "write_updates" /\ last.res = "LockDenied"
  /\ last.before.index.changed
  /\ index[1].changed

\* C29: write_updates on an index with no add since load completes without
\* error whether or not this Index holds the lock; when no index.lock
\* exists it succeeds and changes nothing.
C29_CleanWriteSucceeds ==
  (last.op = "write_updates" /\ ~last.before.index.changed)
    => /\ last.res = "Ok"
       /\ last.before.lockfile = 0 => (Untouched /\ index[1] = last.before.index)

\* C30: write_updates on a dirty index while index.lock exists because
\* another writer holds it fails with LockDenied, leaves the index file and
\* the lock file untouched, and leaves entries and dirty flag as they were.
C30_DeniedWriteKeepsAll ==
  (/\ last.op = "write_updates" /\ last.before.index.changed
   /\ lock[2] # 0 /\ last.before.lockfile = lock[2])
    => /\ last.res = "LockDenied"
       /\ Untouched
       /\ index[1] = last.before.index

----------------------------------------------------------------------------
(* Database (src/database/mod.rs): the object store.  objects is a record   *)
(* [dir, inode, stored]: dir maps the path of a file under .git/objects, a  *)
(* pair <<shard directory, file name>>, to its inode, inode maps an inode   *)
(* to its bytes, and stored remembers the ObjectIds store has returned.     *)
(* Shard directories are made when missing and never removed, so a file     *)
(* can always be created.                                                   *)

\* The decimal digits of data.len().to_string().
RECURSIVE Decimal(_)
Decimal(n) == IF n < 10 THEN <<48 + n>> ELSE Decimal(n \div 10) \o <<48 + (n % 10)>>

\* Object::kind as bytes.
KindBytes(kind) ==
  CASE kind = "blob" -> <<98, 108, 111, 98>>
    [] kind = "tree" -> <<116, 114, 101, 101>>
    [] kind = "commit" -> <<99, 111, 109, 109, 105, 116>>

\* Database::store: "<kind> <len>\0<data>".
Canonical(kind, data) ==
  KindBytes(kind) \o <<32>> \o Decimal(Len(data)) \o <<0>> \o data

ObjectIdOf(content) == Sha1(content, Len(content))

\* format!("{:02x}", byte)
HexDigit(n) == IF n < 10 THEN 48 + n ELSE 87 + n

RECURSIVE bytes_to_hex_string(_)
bytes_to_hex_string(bytes) ==
  IF bytes = <<>> THEN <<>>
  ELSE <<HexDigit(Head(bytes) \div 16), HexDigit(Head(bytes) % 16)>>
         \o bytes_to_hex_string(Tail(bytes))

\* write_object: pathname.join(&hash[0..2]).join(&hash[2..])
ObjectPath(oid) ==
  LET hash == bytes_to_hex_string(oid)
  IN  <<SubSeq(hash, 1, 2), SubSeq(hash, 3, Len(hash))>>

\* The zlib stream of ZlibEncoder at Compression::fast: the two header
\* bytes, the deflate data, the Adler-32 of the content.  The deflate data
\* are modelled as the content itself, the Adler-32 is computed.
RECURSIVE AdlerA(_, _)
AdlerA(bs, n) == IF n = 0 THEN 1 ELSE (AdlerA(bs, n - 1) + bs[n]) % 65521

RECURSIVE AdlerB(_, _)
AdlerB(bs, n) == IF n = 0 THEN 0 ELSE (AdlerB(bs, n - 1) + AdlerA(bs, n)) % 65521

ZlibHeader == <<120, 1>>

Zlib(content) ==
  ZlibHeader \o content \o ToBe(AdlerB(content, Len(content)), 2)
             \o ToBe(AdlerA(content, Len(content)), 2)

\* A write of chunk at offset pos of a file: a gap is filled with zeros.
WriteAt(old, pos, chunk) ==
  LET end == pos + Len(chunk)
      n   == IF Len(old) > end THEN Len(old) ELSE end
  IN  [i \in 1..n |-> IF i > pos /\ i <= end THEN chunk[i - pos]
                      ELSE IF i <= Len(old) THEN old[i] ELSE 0]

DbProcs == {1, 2}

DbInodes == 1..6

\* The inodes a path or an open file of a store call refers to.
DbInUse(ob, st) ==
  {ob.dir[path] : path \in DOMAIN ob.dir}
    \cup {st[p].file : p \in {q \in DbProcs : "file" \in DOMAIN st[q]}}

\* Inodes nothing refers to are gone.
DbReclaim(ob, st) ==
  [ob EXCEPT !.inode = [i \in DOMAIN ob.inode \cap DbInUse(ob, st) |-> ob.inode[i]]]

\* An existence test that finds nothing.
object_exists_never(ob, path) == FALSE

\* object_path.exists()
object_exists(ob, path) == path \in DOMAIN ob.dir

\* File::create(&temp_path): the file there is truncated, or a new one made.
File_create(ob, st, path) ==
  IF path \in DOMAIN ob.dir
  THEN [ob |-> [ob EXCEPT !.inode[ob.dir[path]] = <<>>], file |-> ob.dir[path]]
  ELSE LET i == CHOOSE x \in DbInodes \ DbInUse(ob, st) :
                  \A y \in DbInodes \ DbInUse(ob, st) : x <= y
       IN  [ob |-> [ob EXCEPT !.dir = With(ob.dir, path, i),
                              !.inode = With(ob.inode, i, <<>>)],
            file |-> i]

\* std::fs::rename(temp_path, object_path)
File_rename(ob, from, to) ==
  IF from \notin DOMAIN ob.dir THEN [ob |-> ob, res |-> "CouldNotWrite"]
  ELSE [ob  |-> [ob EXCEPT !.dir = Without(With(ob.dir, to, ob.dir[from]), from)],
        res |-> "Ok"]

----------------------------------------------------------------------------
(* SpecDb: two processes call Database::store on one objects directory,    *)
(* every call on the file system a step of its own.                        *)

MaxStores == 2

\* Blob::new(data) for two files of the workspace.
DbObjects == {[kind |-> "blob", data |-> <<97>>], [kind |-> "blob", data |-> <<98>>]}

\* Names generate_temp_name can draw: six alphanumerics.
TempNames == {<<113, 51, 122, 75, 56, 97>>, <<77, 120, 48, 98, 82, 50>>}

InitDb ==
  /\ dir = EmptyDir
  /\ inode = EmptyInodes
  /\ lock = [p \in Procs |-> 0]
  /\ refLock = [p \in Procs |-> 0]
  /\ index = [p \in Procs |-> Index_new]
  /\ job = [p \in Procs |-> NoJob]
  /\ pc = [p \in Procs |-> IF p \in DbProcs THEN "idle" ELSE "none"]
  /\ ret = [p \in Procs |-> "none"]
  /\ last = NoCall
  /\ nOps = 0
  /\ objects = [dir |-> <<>>, inode |-> <<>>, stored |-> {}]
  /\ store = NoStore
  /\ tree = NoTree

\* Database::store up to the test of write_object: the content is put
\* together and hashed, and if the object file exists the call returns.
DbStore(p, object) ==
  /\ pc[p] = "idle"
  /\ store[p].n < MaxStores
  /\ LET content == Canonical(object.kind, object.data)
         oid     == ObjectIdOf(content)
         path    == ObjectPath(oid)
     IN  IF object_exists(objects, path)
         THEN /\ store' = [store EXCEPT ![p] = [n |-> @.n + 1]]
              /\ last' = [op |-> "store", proc |-> p, content |-> content, oid |-> oid,
                          res |-> "Ok", existed |-> TRUE, before |-> objects,
                          again |-> oid \in objects.stored]
              /\ UNCHANGED pc
         ELSE /\ \E t \in TempNames :
                   store' = [store EXCEPT ![p] =
                               [n |-> @.n + 1, content |-> content, oid |-> oid,
                                object_path |-> path, temp_path |-> <<path[1], t>>,
                                file |-> 0, pos |-> 0,
                                again |-> oid \in objects.stored]]
              /\ pc' = [pc EXCEPT ![p] = "create"]
              /\ last' = NoCall
  /\ UNCHANGED <<dir, inode, lock, refLock, index, job, ret, nOps, objects, tree>>

\* write_object, File::create(&temp_path), after create_dir_all if the
\* shard directory was missing.
DbCreate(p) ==
  /\ pc[p] = "create"
  /\ LET r == File_create(objects, store, store[p].temp_path)
     IN  /\ objects' = r.ob
         /\ store' = [store EXCEPT ![p].file = r.file]
  /\ pc' = [pc EXCEPT ![p] = "header"]
  /\ last' = NoCall
  /\ UNCHANGED <<dir, inode, lock, refLock, index, job, ret, nOps, tree>>

\* One write of the encoder to the file, at the offset of its handle.
DbWrite(p, at, chunk, next) ==
  /\ pc[p] = at
  /\ objects' = [objects EXCEPT !.inode[store[p].file] = WriteAt(@, store[p].pos, chunk)]
  /\ store' = [store EXCEPT ![p].pos = @ + Len(chunk)]
  /\ pc' = [pc EXCEPT ![p] = next]
  /\ last' = NoCall
  /\ UNCHANGED <<dir, inode, lock, refLock, index, job, ret, nOps, tree>>

\* encoder.write_all(content) and encoder.finish(): the header of the
\* stream reaches the file first, the rest of it after.
DbWriteHeader(p) == DbWrite(p, "header", ZlibHeader, "rest")

DbWriteRest(p) ==
  DbWrite(p, "rest", SubSeq(Zlib(store[p].content), 3, Len(Zlib(store[p].content))),
          "rename")

\* write_object, std::fs::rename(temp_path, object_path), and the return
\* of store; the file is closed.
DbRename(p) ==
  /\ pc[p] = "rename"
  /\ LET r   == File_rename(objects, store[p].temp_path, store[p].object_path)
         st2 == [store EXCEPT ![p] = [n |-> @.n]]
         ob2 == IF r.res = "Ok"
                THEN [r.ob EXCEPT !.stored = @ \cup {store[p].oid}]
                ELSE r.ob
     IN  /\ objects' = DbReclaim(ob2, st2)
         /\ store' = st2
         /\ last' = [op |-> "store", proc |-> p, content |-> store[p].content,
                     oid |-> store[p].oid, res |-> r.res, existed |-> FALSE,
                     before |-> objects, again |-> store[p].again]
  /\ pc' = [pc EXCEPT ![p] = "idle"]
  /\ UNCHANGED <<dir, inode, lock, refLock, index, job, ret, nOps, tree>>

NextDb ==
  \E p \in DbProcs :
    \/ \E object \in DbObjects : DbStore(p, object)
    \/ DbCreate(p)
    \/ DbWriteHeader(p)
    \/ DbWriteRest(p)
    \/ DbRename(p)

SpecDb == InitDb /\ [][NextDb]_vars

\* The bytes of the file at a path of the objects directory.
ObjectFile(ob, path) == ob.inode[ob.dir[path]]

\* The paths of object files: the name is the rest of the hex ObjectId.
ObjectPaths(ob) == {path \in DOMAIN ob.dir : Len(path[2]) = 38}

\* C15: idempotent store: a store of content whose store has already
\* returned finds the object file, returns the same ObjectId, and creates,
\* writes and renames nothing.
C15_IdempotentStore ==
  /\ \A p \in DbProcs : pc[p] # "idle" => ~store[p].again
  /\ (last.op = "store" /\ last.again)
       => /\ last.existed
          /\ last.res = "Ok"
          /\ last.oid \in objects.stored
          /\ objects = last.before

\* The second store of a content has returned.
C15_Witness ==
  /\ last.op = "store" /\ last.again /\ last.existed
  /\ ObjectPath(last.oid) \in ObjectPaths(objects)
  /\ store[last.proc].n = 2

\* C16: objects are immutable once written: an object file that exists is
\* there after every step of every store, with the bytes it had.
C16_Immutable ==
  [][\A path \in ObjectPaths(objects) :
       /\ path \in DOMAIN objects'.dir
       /\ ObjectFile(objects', path) = ObjectFile(objects, path)]_vars

\* C17: whatever the interleaving of store calls, an object file that
\* exists holds the complete compressed content of the object with that
\* ObjectId.
C17_NoTornObject ==
  \A path \in ObjectPaths(objects) :
    \E object \in DbObjects :
      LET content == Canonical(object.kind, object.data)
      IN  /\ ObjectPath(ObjectIdOf(content)) = path
          /\ ObjectFile(objects, path) = Zlib(content)

----------------------------------------------------------------------------
(* Tree (src/database/tree.rs).  A Tree is a record [entries], a map from   *)
(* a name to a TreeEntry: [kind |-> "Object", entry] for TreeEntry::Object, *)
(* [kind |-> "Tree", tree, oid] for TreeEntry::Tree, where oid is <<>> for  *)
(* None.  An Entry is a record [name, oid, mode].                           *)

Tree_new == [entries |-> EmptyFn]

\* Entry::parent_directories of tree.rs: ancestors().skip(1), without the
\* last (the empty path), reversed.
TreeEntry_parent_directories(name) == PrefixesUpTo(name, 1)

\* Path::file_name: the last component.
file_name(path) == Components(path)[Len(Components(path))]

\* The keys of a BTreeMap<OsString, _> in iteration order: byte order.
RECURSIVE SortedNames(_)
SortedNames(S) ==
  IF S = {} THEN <<>>
  ELSE LET m == CHOOSE x \in S : \A y \in S \ {x} : BytesLess(x, y)
       IN  <<m>> \o SortedNames(S \ {m})

\* entries.sort_by(|a, b| a.name.cmp(&b.name)): a stable sort.
RECURSIVE InsertByName(_, _)
InsertByName(sorted, e) ==
  IF sorted = <<>> THEN <<e>>
  ELSE IF BytesLess(e.name, Head(sorted).name) THEN <<e>> \o sorted
  ELSE <<Head(sorted)>> \o InsertByName(Tail(sorted), e)

RECURSIVE sort_by_name(_)
sort_by_name(entries) ==
  IF entries = <<>> THEN <<>>
  ELSE InsertByName(sort_by_name(SubSeq(entries, 1, Len(entries) - 1)),
                    entries[Len(entries)])

\* An add_entry that puts every entry into the tree it is called on.
add_entry_flat(t, parents, entry) ==
  [entries |-> With(t.entries, entry.name, [kind |-> "Object", entry |-> entry])]

\* Tree::add_entry.
RECURSIVE add_entry(_, _, _)
add_entry(t, parents, entry) ==
  IF parents = <<>>
  THEN [entries |-> With(t.entries, entry.name, [kind |-> "Object", entry |-> entry])]
  ELSE LET key == file_name(parents[1])
           old == IF key \in DOMAIN t.entries THEN t.entries[key]
                  ELSE [kind |-> "Tree", tree |-> Tree_new, oid |-> <<>>]
       IN  IF old.kind = "Tree"
           THEN [entries |-> With(t.entries, key,
                                  [old EXCEPT !.tree = add_entry(@, Tail(parents), entry)])]
           ELSE t

\* The loop of Tree::build.
RECURSIVE AddEntries(_, _)
AddEntries(root, entries) ==
  IF entries = <<>> THEN root
  ELSE AddEntries(add_entry(root, TreeEntry_parent_directories(Head(entries).name),
                            Head(entries)),
                  Tail(entries))

\* A build that takes the first entry it is given and no other.
Tree_build_first_only(entries) ==
  AddEntries(Tree_new, SubSeq(entries, 1, 1))

\* Tree::build.
Tree_build(entries) == AddEntries(Tree_new, sort_by_name(entries))

TREE_REGULAR_MODE == <<49, 48, 48, 54, 52, 52>>
TREE_EXECUTABLE_MODE == <<49, 48, 48, 55, 53, 53>>
DIRECTORY_MODE == <<52, 48, 48, 48, 48>>

\* impl Object for Tree, data: one record per entry of the map, in order.
RECURSIVE TreeRecords(_, _)
TreeRecords(f, names) ==
  IF names = <<>> THEN <<>>
  ELSE LET name == Head(names)
           e    == f[name]
           rec  == IF e.kind = "Object"
                   THEN (IF e.entry.mode = "Executable" THEN TREE_EXECUTABLE_MODE
                         ELSE TREE_REGULAR_MODE)
                        \o <<32>> \o name \o <<0>> \o e.entry.oid
                   ELSE DIRECTORY_MODE \o <<32>> \o name \o <<0>> \o e.oid
       IN  rec \o TreeRecords(f, Tail(names))

Tree_data(t) == TreeRecords(t.entries, SortedNames(DOMAIN t.entries))

\* database.store(tree) as the func of traverse.
StoreTree(t) == ObjectIdOf(Canonical("tree", Tree_data(t)))

\* A traverse that forgets the ObjectId of a subtree.
RecordOid_dropped(e, oid) == e

\* A traverse that records None for a subtree.
RecordOid_none(e, oid) == [e EXCEPT !.oid = <<>>]

\* Tree::traverse, `*oid = Some(tree_oid)`.
RecordOid(e, oid) == [e EXCEPT !.oid = oid]

\* Tree::traverse.  calls is the list of the calls of func so far, each with
\* the place of its tree under the root, the tree it was given and what it
\* returned; the call numbered failAt returns Err, and `?` returns it.
RECURSIVE Tree_traverse(_, _, _, _)
RECURSIVE TraverseEntries(_, _, _, _, _)
TraverseEntries(t, names, at, calls, failAt) ==
  IF names = <<>> THEN [tree |-> t, calls |-> calls, res |-> "Ok"]
  ELSE LET e == t.entries[Head(names)] IN
       IF e.kind # "Tree" THEN TraverseEntries(t, Tail(names), at, calls, failAt)
       ELSE LET r == Tree_traverse(e.tree, Append(at, Head(names)), calls, failAt) IN
            IF r.res = "Err"
            THEN [tree  |-> [entries |-> With(t.entries, Head(names),
                                              [e EXCEPT !.tree = r.tree])],
                  calls |-> r.calls, res |-> "Err"]
            ELSE TraverseEntries(
                   [entries |-> With(t.entries, Head(names),
                                     RecordOid([e EXCEPT !.tree = r.tree], r.res))],
                   Tail(names), at, r.calls, failAt)

\* A traverse that calls func on a tree although a subtree of it failed.
Tree_traverse_past_errors(t, at, calls, failAt) ==
  LET r == TraverseEntries(t, SortedNames(DOMAIN t.entries), at, calls, failAt) IN
  IF Len(r.calls) + 1 = failAt
  THEN [tree  |-> r.tree,
        calls |-> Append(r.calls, [at |-> at, tree |-> r.tree, res |-> "Err"]),
        res   |-> "Err"]
  ELSE [tree  |-> r.tree,
        calls |-> Append(r.calls, [at |-> at, tree |-> r.tree,
                                   res |-> StoreTree(r.tree)]),
        res   |-> IF r.res = "Err" THEN "Err" ELSE StoreTree(r.tree)]

Tree_traverse(t, at, calls, failAt) ==
  LET r == TraverseEntries(t, SortedNames(DOMAIN t.entries), at, calls, failAt) IN
  IF r.res = "Err" THEN r
  ELSE IF Len(r.calls) + 1 = failAt
       THEN [tree  |-> r.tree,
             calls |-> Append(r.calls, [at |-> at, tree |-> r.tree, res |-> "Err"]),
             res   |-> "Err"]
       ELSE [tree  |-> r.tree,
             calls |-> Append(r.calls, [at |-> at, tree |-> r.tree,
                                        res |-> StoreTree(r.tree)]),
             res   |-> StoreTree(r.tree)]

----------------------------------------------------------------------------
(* SpecTree: Tree::build on the entries of an index, handed over in any    *)
(* order, then traverse with database.store as its func.                   *)

MaxEntries == 3

pB == <<98>>

\* Entries of an index: distinct paths, none the directory of another.
TreeEntries ==
  {[name |-> pABC, oid |-> Oid(12), mode |-> "Regular"],
   [name |-> pAE, oid |-> Oid(34), mode |-> "Executable"],
   [name |-> pB, oid |-> Oid(12), mode |-> "Regular"],
   [name |-> pF, oid |-> Oid(34), mode |-> "Regular"]}

\* The vectors of distinct entries, up to MaxEntries long.
EntryVectors ==
  UNION {{v \in [1..n -> TreeEntries] : \A i, j \in 1..n : i # j => v[i] # v[j]} :
           n \in 1..MaxEntries}

InitTree ==
  /\ dir = EmptyDir
  /\ inode = EmptyInodes
  /\ lock = [p \in Procs |-> 0]
  /\ refLock = [p \in Procs |-> 0]
  /\ index = [p \in Procs |-> Index_new]
  /\ job = [p \in Procs |-> NoJob]
  /\ pc = [p \in Procs |-> IF p = 1 THEN "entries" ELSE "none"]
  /\ ret = [p \in Procs |-> "none"]
  /\ last = NoCall
  /\ nOps = 0
  /\ objects = NoObjects
  /\ store = NoStore
  /\ \E v \in EntryVectors : tree = [entries |-> v]

\* let mut root = Tree::build(entries)
TBuild ==
  /\ pc[1] = "entries"
  /\ tree' = [entries |-> tree.entries, root |-> Tree_build(tree.entries)]
  /\ pc' = [pc EXCEPT ![1] = "built"]
  /\ last' = [op |-> "build"]
  /\ UNCHANGED <<dir, inode, lock, refLock, index, job, ret, nOps, objects, store>>

\* root.traverse(&|tree| database.store(tree)), where the store numbered
\* failAt fails (none for 0).
TTraverse(failAt) ==
  /\ pc[1] = "built"
  /\ LET r == Tree_traverse(tree.root, <<>>, <<>>, failAt)
     IN  /\ tree' = [tree EXCEPT !.root = r.tree]
         /\ last' = [op |-> "traverse", calls |-> r.calls, res |-> r.res,
                     built |-> tree.root]
  /\ pc' = [pc EXCEPT ![1] = "stored"]
  /\ UNCHANGED <<dir, inode, lock, refLock, index, job, ret, nOps, objects, store>>

NextTree ==
  \/ TBuild
  \/ \E failAt \in 0..MaxEntries : TTraverse(failAt)

SpecTree == InitTree /\ [][NextTree]_vars

\* The places of the trees of a tree: the root is <<>>, a Subtree is the
\* list of names that leads to it.
RECURSIVE TreePlaces(_, _)
TreePlaces(t, at) ==
  {at} \cup UNION {TreePlaces(t.entries[name].tree, Append(at, name)) :
                     name \in {n \in DOMAIN t.entries : t.entries[n].kind = "Tree"}}

\* Place a lies strictly beneath place b.
Beneath(a, b) == Len(a) > Len(b) /\ SubSeq(a, 1, Len(b)) = b

\* C18: a traverse that succeeds calls func exactly once on every Subtree
\* and once on the root; the call for a tree comes after the calls for
\* all Subtrees nested within it, whose ObjectIds are by then recorded on
\* their nodes; the root is stored last and its ObjectId is the result.
C18_PostOrder ==
  (last.op = "traverse" /\ last.res # "Err")
    => LET calls == last.calls
           n     == Len(calls)
       IN  /\ \A place \in TreePlaces(last.built, <<>>) :
                Cardinality({i \in 1..n : calls[i].at = place}) = 1
           /\ n = Cardinality(TreePlaces(last.built, <<>>))
           /\ \A i, j \in 1..n : Beneath(calls[i].at, calls[j].at) => i < j
           /\ \A j \in 1..n : \A name \in DOMAIN calls[j].tree.entries :
                calls[j].tree.entries[name].kind = "Tree"
                  => \E i \in 1..(j - 1) :
                       /\ calls[i].at = Append(calls[j].at, name)
                       /\ calls[j].tree.entries[name].oid = calls[i].res
           /\ calls[n].at = <<>>
           /\ calls[n].res = last.res
           /\ \A i \in 1..n : calls[i].res # "Err"

\* A root with the Subtree a, within it the Subtree b: three calls.
C18_Witness ==
  /\ last.op = "traverse" /\ last.res # "Err"
  /\ Len(last.calls) = 3
  /\ last.calls[1].at = <<pA, <<98>>>>
  /\ last.calls[2].at = <<pA>>
  /\ last.calls[3].at = <<>>

\* The orders a vector of entries can be handed over in.
Reorderings(v) ==
  {w \in [1..Len(v) -> {v[i] : i \in 1..Len(v)}] :
     \A i, j \in 1..Len(v) : i # j => w[i] # w[j]}

\* What a traverse stored: the bytes of every tree, by place.
Stored(calls) == {<<calls[i].at, Tree_data(calls[i].tree)>> : i \in 1..Len(calls)}

RECURSIVE Descend(_, _)
Descend(t, names) ==
  IF names = <<>> THEN [found |-> TRUE, tree |-> t]
  ELSE IF Head(names) \in DOMAIN t.entries /\ t.entries[Head(names)].kind = "Tree"
       THEN Descend(t.entries[Head(names)].tree, Tail(names))
       ELSE [found |-> FALSE]

\* C20: build places each entry d1/.../dk/f as a Leaf named f in the
\* Subtree reached from the root by descending d1, ..., dk.
C20_LeafPlacement ==
  last.op = "build"
    => \A i \in 1..Len(tree.entries) :
         LET comps == Components(tree.entries[i].name)
             k     == Len(comps) - 1
             sub   == Descend(tree.root, SubSeq(comps, 1, k))
         IN  /\ sub.found
             /\ comps[k + 1] \in DOMAIN sub.tree.entries
             /\ sub.tree.entries[comps[k + 1]] =
                  [kind |-> "Object", entry |-> tree.entries[i]]

\* C33: if func returns an error for some tree during traverse, traverse
\* returns that error without calling func on that tree again, and func is
\* not called on any ancestor of it, the root included: no parent is
\* stored that refers to a child that failed to store.
C33_FailureStopsTraverse ==
  (last.op = "traverse" /\ last.res = "Err")
    => LET calls == last.calls
           n     == Len(calls)
       IN  /\ n >= 1
           /\ calls[n].res = "Err"
           /\ \A i \in 1..(n - 1) :
                /\ calls[i].res # "Err"
                /\ calls[i].at # calls[n].at
                /\ ~Beneath(calls[n].at, calls[i].at)

\* The store of a/b failed first, and neither a nor the root was stored.
C33_Witness ==
  /\ last.op = "traverse" /\ last.res = "Err"
  /\ Cardinality(TreePlaces(last.built, <<>>)) = 3
  /\ Len(last.calls) = 1
  /\ last.calls[1].at = <<pA, <<98>>>>

\* Every Subtree entry of t has its ObjectId: data() finds what it expects.
OidsSet(t) ==
  \A name \in DOMAIN t.entries :
    t.entries[name].kind = "Tree" => t.entries[name].oid # <<>>

\* C34: during traverse, and in the store of the root that follows a
\* traverse that succeeded, data() is never evaluated on a Tree that holds
\* a Subtree whose ObjectId is unset.
C34_DataNeverPanics ==
  last.op = "traverse"
    => /\ \A i \in 1..Len(last.calls) : OidsSet(last.calls[i].tree)
       /\ last.res # "Err" => OidsSet(tree.root)

\* The root holds the Subtree a and a Leaf, and was stored after a.
C34_Witness ==
  /\ last.op = "traverse" /\ last.res # "Err"
  /\ Len(last.calls) = 2
  /\ DOMAIN tree.root.entries = {pA, pF}
  /\ tree.root.entries[pA].oid = last.calls[1].res

\* The entries at the Leaves of a tree, each with the place of its tree.
RECURSIVE Leaves(_, _)
Leaves(t, at) ==
  {<<at, t.entries[name].entry>> :
     name \in {n \in DOMAIN t.entries : t.entries[n].kind = "Object"}}
  \cup UNION {Leaves(t.entries[name].tree, Append(at, name)) :
               name \in {n \in DOMAIN t.entries : t.entries[n].kind = "Tree"}}

\* The number of Leaves of a tree.
RECURSIVE LeafCount(_, _)
LeafCount(t, names) ==
  IF names = <<>> THEN 0
  ELSE (IF t.entries[Head(names)].kind = "Object" THEN 1
        ELSE LeafCount(t.entries[Head(names)].tree,
                       SortedNames(DOMAIN t.entries[Head(names)].tree.entries)))
       + LeafCount(t, Tail(names))

\* C35: for entries with distinct paths, none the directory of another,
\* the tree built holds exactly one Leaf per entry, in the tree of its
\* directory, and exactly one Subtree per distinct ancestor directory of
\* the paths.
C35_OneLeafPerEntry ==
  last.op = "build"
    => LET given == {tree.entries[i] : i \in 1..Len(tree.entries)}
           dirs  == UNION {{Components(d) :
                              d \in {q \in IndexPaths \cup {pA, pAB} : IsAncestor(q, e.name)}} :
                             e \in given}
       IN  /\ LeafCount(tree.root, SortedNames(DOMAIN tree.root.entries)) = Len(tree.entries)
           /\ Leaves(tree.root, <<>>) =
                {<<SubSeq(Components(e.name), 1, Len(Components(e.name)) - 1), e>> :
                   e \in given}
           /\ TreePlaces(tree.root, <<>>) = {<<>>} \cup dirs

\* Two entries under a, one of them under a/b, and one at the top.
C35_Witness ==
  /\ last.op = "build"
  /\ {tree.entries[i].name : i \in 1..Len(tree.entries)} = {pABC, pAE, pB}

----------------------------------------------------------------------------
(* SpecEntry: one file of the workspace, its path of any length and its    *)
(* stat mode any of a few, is made an Entry; for the shorter paths it is   *)
(* added to an Index together with the file f, the index is written and a  *)
(* fresh Index loads the file.                                             *)

MaxPathLen == 17

\* Path lengths around MAX_PATH_SIZE and around 2^16.
LongLens == {4094, 4095, 4096, 65535, 65536, 65537}

\* The path of n bytes: "aaa...".
PathOfLen(n) == [i \in 1..n |-> 97]

\* st_mode of a regular file with the permissions 644, 755, 744, 654, 645
\* and 600.
StatModes == {33188, 33261, 33252, 33196, 33189, 33152}

InitEntry ==
  /\ dir = EmptyDir
  /\ inode = EmptyInodes
  /\ lock = [p \in Procs |-> 0]
  /\ refLock = [p \in Procs |-> 0]
  /\ index = [p \in Procs |-> Index_new]
  /\ \E n \in (1..MaxPathLen) \cup LongLens, m \in StatModes :
       job = [p \in Procs |->
                IF p = 1 THEN [cmd |-> "add", paths |-> <<PathOfLen(n), pF>>,
                               todo |-> <<PathOfLen(n), pF>>,
                               stat |-> [StatRegular EXCEPT !.mode = m]]
                ELSE NoJob]
  /\ pc = [p \in Procs |-> IF p = 1 THEN "file" ELSE "none"]
  /\ ret = [p \in Procs |-> "none"]
  /\ last = NoCall
  /\ nOps = 0
  /\ objects = NoObjects
  /\ store = NoStore
  /\ tree = NoTree

\* Entry::new(&pathname, oid, stat)
ENew ==
  /\ pc[1] = "file"
  /\ last' = [op |-> "new",
              entry |-> Entry_new(job[1].paths[1], Oid(12), job[1].stat)]
  /\ pc' = [pc EXCEPT ![1] = "stage"]
  /\ UNCHANGED <<dir, inode, lock, refLock, index, job, ret, nOps, objects, store, tree>>

\* index.add(&pathname, blob_oid, stat), for the file and then for f
EAdd ==
  /\ pc[1] = "stage"
  /\ job[1].todo # <<>>
  /\ Len(job[1].paths[1]) <= MaxPathLen
  /\ index' = [index EXCEPT ![1] =
                 Index_add(index[1], Head(job[1].todo), Oid(12), job[1].stat, <<>>)]
  /\ job' = [job EXCEPT ![1].todo = Tail(@)]
  /\ last' = [op |-> "add"]
  /\ UNCHANGED <<dir, inode, lock, refLock, pc, ret, nOps, objects, store, tree>>

\* index.write_updates()
EWrite ==
  /\ pc[1] = "stage"
  /\ job[1].todo = <<>>
  /\ LET r   == write_updates(Fs, lock[1], index[1], Handles)
         fs2 == Reclaim(r.fs, {r.lock} \ {0})
     IN  /\ dir' = fs2.dir
         /\ inode' = fs2.inode
         /\ lock' = [lock EXCEPT ![1] = r.lock]
         /\ index' = [index EXCEPT ![1] = r.ix]
         /\ last' = [op |-> "write_updates", res |-> r.res]
  /\ pc' = [pc EXCEPT ![1] = "written"]
  /\ UNCHANGED <<refLock, ret, nOps, job, objects, store, tree>>

\* Index::new(path).load(): the fresh Index is index[2].  What is kept of
\* the call is how far read_entries read.
ELoad ==
  /\ pc[1] = "written"
  /\ LET file == Content(Fs, "index")
         r    == Index_load(Index_new, file)
         h    == read_header(file)
     IN  /\ index' = [index EXCEPT ![2] = r.ix]
         /\ last' = [op |-> "load", res |-> r.err,
                     read |-> read_entries(Index_new, file, HEADER_SIZE, h.count).pos]
  /\ pc' = [pc EXCEPT ![1] = "loaded"]
  /\ UNCHANGED <<dir, inode, lock, refLock, ret, nOps, job, objects, store, tree>>

NextEntry == ENew \/ EAdd \/ EWrite \/ ELoad

SpecEntry == InitEntry /\ [][NextEntry]_vars

\* C37: for every path the entry built by add has flags = min(path byte
\* length, 0xFFF), also for paths of 65536 bytes or more.
C37_Flags ==
  last.op = "new"
    => last.entry.flags = Min(Len(job[1].paths[1]), 4095)

\* The smallest multiple of 8 that holds the 62 fixed bytes, n bytes of
\* path and one NUL.
EntryLen(n) == 8 * ((63 + n + 7) \div 8)

\* C38: for a path of n bytes without NUL the serialized entry is
\* 8 * ceil((63 + n) / 8) bytes long, at least 64 and a multiple of 8, the
\* path followed by 1 to 8 NUL bytes; the reader consumes exactly that many
\* bytes, so the entry after it is framed correctly.
C38_EntryFraming ==
  /\ pc[1] \in {"written", "loaded"} =>
       LET path == job[1].paths[1]
           n    == Len(path)
           e    == index[1].entries[path]
           bs   == Entry_bytes(e)
           file == Content(Fs, "index")
       IN  /\ Len(bs) = EntryLen(n)
           /\ Len(bs) >= 64 /\ Len(bs) % 8 = 0
           /\ SubSeq(bs, 63, 62 + n) = path
           /\ Len(bs) - (62 + n) \in 1..8
           /\ \A i \in (63 + n)..Len(bs) : bs[i] = 0
           /\ EntryEnd(file, HEADER_SIZE + ENTRY_MIN_SIZE) = HEADER_SIZE + EntryLen(n)
           /\ SubSeq(file, HEADER_SIZE + 1, HEADER_SIZE + EntryLen(n)) = bs
           /\ SubSeq(file, HEADER_SIZE + EntryLen(n) + 1,
                     HEADER_SIZE + EntryLen(n) + EntryLen(1))
                = Entry_bytes(index[1].entries[pF])
  /\ last.op = "load" =>
       /\ last.res = "Ok"
       /\ last.read = HEADER_SIZE + EntryLen(Len(job[1].paths[1])) + EntryLen(1)
       /\ index[2].entries = index[1].entries

\* A path of 9 bytes: 72 bytes, its last byte the one NUL, were read as the
\* first entry.
C38_Witness ==
  /\ last.op = "load" /\ last.res = "Ok"
  /\ Len(job[1].paths[1]) = 9
  /\ last.read = HEADER_SIZE + 72 + 64
  /\ DOMAIN index[2].entries = {job[1].paths[1], pF}

\* C39: an index entry's mode is executable (0o100755) if and only if the
\* owner-execute bit of the file's stat mode is set, and regular
\* (0o100644) otherwise.
C39_ModeFromOwnerBit ==
  last.op = "new"
    => last.entry.mode = (IF (job[1].stat.mode \div 64) % 2 = 1
                          THEN EXECUTABLE_MODE ELSE REGULAR_MODE)

====
